---- MODULE Spec2Model ----
(***************************************************************************)
(* A model of internal/querynode/segment.go: one Segment (the wrapper of   *)
(* a native segcore handle), its reader/writer lock, its tombstone buffer  *)
(* (DeleteRecords), its delete watermark, its primary-key statistics and   *)
(* the calls it issues into the native engine.                             *)
(*                                                                         *)
(* Every method is translated step by step.  A step ends where the Go code *)
(* can block (a mutex, the RWMutex, an awaited native call); what a method *)
(* does between two such points touches only locals or state its locks     *)
(* protect, and is one action.                                             *)
(***************************************************************************)
EXTENDS Integers, Sequences, FiniteSets, TLC

\* ------------------------------------------------------------------ bounds
MaxTs == 2
MaxBatch == 1
MaxRecords == 2
BloomBits == 4
MaxHistory == 1
MaxOffset == 1
MaxRows == 2
PoolWorkers == 1
MaxFieldID == 2
MaxBinlogs == 2
MaxEntries == 2

Threads == {"t1", "t2"}

\* ----------------------------------------------------------------- values
NoThread == "none"
Nil == "nil"
Ptr == "ptr"

segmentTypeGrowing == "Growing"
segmentTypeSealed == "Sealed"

\* the error values the methods return
NoErr == "nil"
ErrSegmentUnhealthy == "segment unhealthy"
ErrEmptyPks == "empty pks to delete"
ErrLenMismatch == "length of entityIDs not equal to length of timestamps"
ErrInvalidPkType == "invalid data type of primary keys"
ErrIllegalType == "illegal segment type"
ErrNilPlan == "nil search plan"
ErrMarshal == "failed to marshal"
ErrLoadInfo == "load info failed"
ErrNative == "native call failed"
ErrFetch == "remote read failed"
ErrInvalidFieldID == "Invalid fieldID"
ErrDecode == "unexpected EOF"
ErrInvalidDataType == "invalid data type"
Panic == "panic"

\* primaryKey: its data type and its value
Int64PK(v) == [Type |-> "Int64", Value |-> v]
VarCharPK(v) == [Type |-> "VarChar", Value |-> v]
OtherPK(v) == [Type |-> "Float", Value |-> v]

Int64Keys == {Int64PK(1), Int64PK(2)}
Timestamps == 0..MaxTs

SeqsUpTo(S, n) == UNION {[1..k -> S] : k \in 0..n}

VARIABLES
    segmentType,              \* Segment.segmentType (atomic)
    destroyed,                \* Segment.destroyed (atomic)
    segmentPtr,               \* Segment.segmentPtr: Ptr or Nil
    recentlyModified,         \* Segment.recentlyModified (atomic)
    mutReaders,               \* Segment.mut: the threads holding the read lock
    mutWriter,                \* Segment.mut: the thread holding the write lock
    mutPending,               \* Segment.mut: the threads blocked in Lock()
    bufMut,                   \* deleteBuffer.mut: its holder
    records,                  \* deleteBuffer.records
    flushed,                  \* deleteBuffer.flushed
    flushedDeletedTimestamp,  \* Segment.flushedDeletedTimestamp
    statLock,                 \* Segment.statLock: its holder
    currentStat,              \* Segment.currentStat: <<>> (nil) or <<a PkStatistics>>
    historyStats,             \* Segment.historyStats
    lazyLoading,              \* Segment.lazyLoading (atomic)
    statRaced,                \* currentStat was written while another thread held statLock
    nativeReleased,           \* engine: C.DeleteSegment calls completed on the handle
    engDeleted,               \* engine: the primary keys deleted in the native segment
    engLastTs,                \* engine: <<the last timestamp a C.Delete call handed it>>
    lateCalls,                \* engine: the native calls issued on the handle of a destroyed segment
    pc,                       \* per thread: where it is in its method
    op,                       \* per thread: the method it runs and its arguments
    loc,                      \* per thread: the batch deleteImpl was given; in tss, segmentPreInsert's offset
    ret,                      \* at the thread whose method returned in the latest step: what it returned
    trial,                    \* the comparison of the two delete paths: its batch, its phase
    fill,                     \* fillIndexedFieldsData: its result, its loop position, the reads it made
    pool,                     \* the dispatch pools: their queues, their running units, their callers
    indexedFieldInfos,        \* Segment.indexedFieldInfos: per field ID, <<>> or <<its IndexedFieldInfo>>
    located                   \* getFieldDataPath: the binlogs and the offset it is given, <<its result>>

lockVars == <<mutReaders, mutWriter, mutPending>>
bufVars == <<bufMut, records, flushed>>
engVars == <<nativeReleased, engDeleted, engLastTs, lateCalls>>
segVars == <<segmentType, destroyed, segmentPtr, recentlyModified>>
statVars == <<statLock, currentStat, historyStats, lazyLoading, statRaced>>
vars == <<segmentType, destroyed, segmentPtr, recentlyModified, mutReaders,
          mutWriter, mutPending, bufMut, records, flushed,
          flushedDeletedTimestamp, statLock, currentStat, historyStats,
          lazyLoading, statRaced, nativeReleased, engDeleted, engLastTs,
          lateCalls, pc, op, loc, ret, trial, fill, pool, indexedFieldInfos, located>>

NoOp == [name |-> "none", pks |-> <<>>, tss |-> <<>>, sd |-> FALSE]
NoBatch == [pks |-> <<>>, tss |-> <<>>]
NoRet == [name |-> "none", pks |-> <<>>, err |-> NoErr, val |-> 0, sd |-> FALSE,
          called |-> FALSE]

\* the field IDs, the IndexedFieldInfo values (a nil indexInfo is <<>>) and
\* the empty map
FieldIDs == 1..MaxFieldID
IndexedFieldInfos ==
    [fieldBinlog : {"binlog/1", "binlog/2"},
     indexInfo : {<<>>, <<[EnableIndex |-> TRUE]>>, <<[EnableIndex |-> FALSE]>>}]
NoInfos == [fieldID \in FieldIDs |-> <<>>]

NoLocated == [binlogs |-> <<>>, offset |-> 0, result |-> <<>>]

\* the two pools, and the goroutines that submit native calls to them
Pools == {"DynamicPool", "SQPool"}
Callers == {"g1", "g2", "g3"}

NoPool == [queue |-> [p \in Pools |-> <<>>],
           running |-> [p \in Pools |-> {}],
           done |-> {},
           awaiting |-> [g \in Callers |-> "none"]]

NoFill == [phase |-> "idle", FieldsData |-> <<>>, Offset |-> <<>>, f |-> 1, i |-> 0,
           reads |-> <<>>, err |-> NoErr]

\* newSegment: a healthy segment of the given type around a fresh native handle
newSegment(segType) ==
    /\ segmentType = segType
    /\ destroyed = FALSE
    /\ segmentPtr = Ptr
    /\ recentlyModified = FALSE
    /\ mutReaders = {}
    /\ mutWriter = NoThread
    /\ mutPending = {}
    /\ bufMut = NoThread
    /\ records = <<>>
    /\ flushed = FALSE
    /\ flushedDeletedTimestamp = 0
    /\ statLock = NoThread
    /\ currentStat = <<>>
    /\ historyStats = <<>>
    /\ lazyLoading = FALSE
    /\ statRaced = FALSE
    /\ nativeReleased = 0
    /\ engDeleted = {}
    /\ engLastTs = <<>>
    /\ lateCalls = {}

\* newSegment again, as the step that puts a new segment in the place of the old
newSegmentAgain(segType) ==
    /\ segmentType' = segType
    /\ destroyed' = FALSE
    /\ segmentPtr' = Ptr
    /\ recentlyModified' = FALSE
    /\ mutReaders' = {}
    /\ mutWriter' = NoThread
    /\ mutPending' = {}
    /\ bufMut' = NoThread
    /\ records' = <<>>
    /\ flushed' = FALSE
    /\ flushedDeletedTimestamp' = 0
    /\ statLock' = NoThread
    /\ currentStat' = <<>>
    /\ historyStats' = <<>>
    /\ lazyLoading' = FALSE
    /\ statRaced' = FALSE
    /\ nativeReleased' = 0
    /\ engDeleted' = {}
    /\ engLastTs' = <<>>
    /\ lateCalls' = {}

NoTrial == [phase |-> "none", pks |-> <<>>, tss |-> <<>>, direct |-> <<>>]

InitThreads ==
    /\ \E segType \in {segmentTypeGrowing, segmentTypeSealed} : newSegment(segType)
    /\ pc = [t \in Threads |-> "idle"]
    /\ op = [t \in Threads |-> NoOp]
    /\ loc = [t \in Threads |-> NoBatch]
    /\ ret = [t \in Threads |-> NoRet]

Init ==
    /\ InitThreads
    /\ trial = NoTrial
    /\ fill = NoFill
    /\ pool = NoPool
    /\ indexedFieldInfos = NoInfos
    /\ located = NoLocated

\* ------------------------------------------------------- thread bookkeeping
\* a method is entered: its name, its arguments, and whether the segment was
\* already destroyed at that moment
Enter(t, name, pks, tss) ==
    op' = [op EXCEPT ![t] = [name |-> name, pks |-> pks, tss |-> tss, sd |-> destroyed]]

Goto(t, label) == pc' = [pc EXCEPT ![t] = label]

\* the method named `name`, entered when destroyed was `sd`, returns
ReturnOf(t, name, sd, err, val, called) ==
    /\ pc' = [pc EXCEPT ![t] = "idle"]
    /\ op' = [op EXCEPT ![t] = NoOp]
    /\ loc' = [loc EXCEPT ![t] = NoBatch]
    /\ ret' = [u \in Threads |->
                   IF u = t THEN [name |-> name, pks |-> op[t].pks, err |-> err,
                                  val |-> val, sd |-> sd, called |-> called]
                   ELSE NoRet]

\* a step of a method that does not return
NoReturn == ret' = [u \in Threads |-> NoRet]

\* the running method returns
Return(t, err, val, called) == ReturnOf(t, op[t].name, op[t].sd, err, val, called)

\* a method that returns in its first step
ReturnAtOnce(t, name, err, val) == ReturnOf(t, name, destroyed, err, val, FALSE)

\* ---------------------------------------------------------- Segment.mut
\* a health check that lets every caller through
healthy_always == TRUE

\* healthy: whether it is safe to use segmentPtr
healthy == ~destroyed

\* RLock blocks while a writer holds the lock or waits for it
CanRLock == mutWriter = NoThread /\ mutPending = {}

\* a write lock that does not wait for the readers
CanLock_ignoresReaders(t) == t \in mutPending /\ mutWriter = NoThread

\* Lock is granted to a pending writer once every reader has left
CanLock(t) == t \in mutPending /\ mutWriter = NoThread /\ mutReaders = {}

\* the native call `name` is handed segmentPtr
NativeCall(name) ==
    lateCalls' = IF destroyed THEN lateCalls \cup {name} ELSE lateCalls

\* ------------------------------------------------------- DeleteRecords
Min(a, b) == IF a < b THEN a ELSE b

Keys(recs) == [i \in 1..Len(recs) |-> recs[i].pk]
Stamps(recs) == [i \in 1..Len(recs) |-> recs[i].timestamp]

\* the loop of TryAppend: one DeleteRecord{pks[i], timestamps[i]} per i
AppendRecords(recs, pks, tss, n) ==
    recs \o [i \in 1..n |-> [pk |-> pks[i], timestamp |-> tss[i]]]

\* TryAppend's result: false once flushed; timestamps[i] past the end of
\* timestamps is an index out of range
TryAppendResult(pks, tss) ==
    IF flushed THEN "false"
    ELSE IF Len(pks) > Len(tss) THEN Panic
    ELSE "true"

\* a TryAppend that forgets to look at the flushed flag
TryAppend_ignoresFlushed(pks, tss) ==
    records' = AppendRecords(records, pks, tss, Min(Len(pks), Len(tss)))

\* TryAppend's effect on the buffer (the records appended before a panic stay)
TryAppend(pks, tss) ==
    records' = IF flushed THEN records
               ELSE AppendRecords(records, pks, tss, Min(Len(pks), Len(tss)))

\* ByTimestamp.Less
Less(a, b) == a.timestamp < b.timestamp

IsSortedBy(recs) == \A i \in 1..Len(recs) - 1 : ~Less(recs[i + 1], recs[i])

IndexPerms(n) == {p \in [1..n -> 1..n] : \A i, j \in 1..n : i # j => p[i] # p[j]}

\* a Flush that forgets to sort
SortByTimestamp_unsorted(recs) == {recs}

\* sort.Sort(ByTimestamp(r.records)): sort.Sort promises an ascending order
\* and no more ("The sort is not guaranteed to be stable"), so every ascending
\* arrangement of the records is an outcome
SortByTimestamp(recs) ==
    {s \in {[i \in 1..Len(recs) |-> recs[p[i]]] : p \in IndexPerms(Len(recs))} :
        IsSortedBy(s)}

\* sort.Search(n, func(i) { return timestamps[i] >= watermark+1 }): the binary
\* search of the standard library, on indices 0..n-1
RECURSIVE SearchLoop(_, _, _, _)
SearchLoop(i, j, tss, watermark) ==
    IF i < j
    THEN LET h == (i + j) \div 2
         IN  IF ~(tss[h + 1] >= watermark + 1)
             THEN SearchLoop(h + 1, j, tss, watermark)
             ELSE SearchLoop(i, h, tss, watermark)
    ELSE i

\* a search for the first timestamp at or past the watermark, not past it
sortSearch_inclusive(tss, watermark) == SearchLoop(0, Len(tss), tss, watermark - 1)

sortSearch(tss, watermark) == SearchLoop(0, Len(tss), tss, watermark)

\* a slice that keeps the records before start
SliceFrom_whole(s, start) == s

\* pks[start:], timestamps[start:]
SliceFrom(s, start) == SubSeq(s, start + 1, Len(s))

\* the engine is handed the timestamps tss by a C.Delete call
NativeDelete(tss) == engLastTs' = <<tss[Len(tss)]>>

\* a Flush that marks the buffer flushed whatever its handler returned
FlushReturn_alwaysFlushed(t, err, called) ==
    /\ bufMut' = NoThread
    /\ flushedDeletedTimestamp' = IF err = NoErr THEN op[t].tss[Len(op[t].pks)]
                                  ELSE flushedDeletedTimestamp
    /\ records' = <<>>
    /\ flushed' = TRUE
    /\ Return(t, err, 0, called)

\* a handler that sets the watermark before it looks at deleteImpl's error
FlushReturn_watermarkFirst(t, err, called) ==
    /\ bufMut' = NoThread
    /\ flushedDeletedTimestamp' = op[t].tss[Len(op[t].pks)]
    /\ IF err = NoErr
       THEN records' = <<>> /\ flushed' = TRUE
       ELSE UNCHANGED <<records, flushed>>
    /\ Return(t, err, 0, called)

\* Flush, after its handler returned err: on success the buffer is cleared and
\* flushed for good; FlushDelete's handler has then set the watermark to the
\* last timestamp it was given
FlushReturn(t, err, called) ==
    /\ bufMut' = NoThread
    /\ IF err = NoErr
       THEN /\ flushedDeletedTimestamp' = op[t].tss[Len(op[t].pks)]
            /\ records' = <<>>
            /\ flushed' = TRUE
       ELSE UNCHANGED <<flushedDeletedTimestamp, records, flushed>>
    /\ Return(t, err, 0, called)

\* deleteImpl returns err to its caller: segmentDelete returns it, Flush goes on
AfterDeleteImpl(t, err, called) ==
    IF op[t].name = "FlushDelete"
    THEN FlushReturn(t, err, called)
    ELSE /\ Return(t, err, 0, called)
         /\ UNCHANGED <<bufVars, flushedDeletedTimestamp>>

\* deleteImpl up to its C.Delete call: under the read lock, the health check,
\* the search for the first timestamp past the watermark, the marshalling
deleteImplEnter(t) ==
    /\ pc[t] = "deleteImpl"
    /\ CanRLock
    /\ UNCHANGED statVars
    /\ LET start == sortSearch(op[t].tss, flushedDeletedTimestamp)
           pks == SliceFrom(op[t].pks, start)
           tss == SliceFrom(op[t].tss, start)
       IN  IF ~healthy
           THEN /\ AfterDeleteImpl(t, ErrSegmentUnhealthy, FALSE)
                /\ UNCHANGED <<segVars, lockVars, engVars>>
           ELSE IF start = Len(op[t].tss)
           THEN /\ AfterDeleteImpl(t, NoErr, FALSE)
                /\ UNCHANGED <<segVars, lockVars, engVars>>
           ELSE IF pks[1].Type \notin {"Int64", "VarChar"}
           THEN /\ AfterDeleteImpl(t, ErrInvalidPkType, FALSE)
                /\ UNCHANGED <<segVars, lockVars, engVars>>
           ELSE /\ mutReaders' = mutReaders \cup {t}
                /\ loc' = [loc EXCEPT ![t] = [pks |-> pks, tss |-> tss]]
                /\ NativeDelete(tss)
                /\ NativeCall("C.Delete")
                /\ Goto(t, "C.Delete")
                /\ UNCHANGED <<segVars, mutWriter, mutPending, bufVars,
                               flushedDeletedTimestamp, nativeReleased,
                               engDeleted, op>> /\ NoReturn

\* C.Delete returns its status; deleteImpl releases the read lock
deleteImplExit(t) ==
    /\ pc[t] = "C.Delete"
    /\ mutReaders' = mutReaders \ {t}
    /\ \E status \in {NoErr, ErrNative} :
        /\ engDeleted' = IF status = NoErr
                         THEN engDeleted \cup {loc[t].pks[i] : i \in 1..Len(loc[t].pks)}
                         ELSE engDeleted
        /\ AfterDeleteImpl(t, status, TRUE)
    /\ UNCHANGED <<segVars, statVars, mutWriter, mutPending, nativeReleased,
                   engLastTs, lateCalls>>

\* a segmentDelete that does not compare the two lengths
segmentDelete_noLengthCheck(t, pks, tss) ==
    /\ pc[t] = "idle"
    /\ \/ /\ Len(pks) <= 0
          /\ ReturnAtOnce(t, "segmentDelete", ErrEmptyPks, 0)
          /\ UNCHANGED records
       \/ /\ Len(pks) > 0
          /\ bufMut = NoThread
          /\ TryAppend(pks, tss)
          /\ IF TryAppendResult(pks, tss) = "true"
             THEN ReturnAtOnce(t, "segmentDelete", NoErr, 0)
             ELSE /\ Enter(t, "segmentDelete", pks, tss)
                  /\ Goto(t, "deleteImpl")
                  /\ UNCHANGED <<loc>> /\ NoReturn
    /\ UNCHANGED <<segVars, statVars, lockVars, bufMut, flushed,
                   flushedDeletedTimestamp, engVars>>

\* a segmentDelete whose TryAppend does not take the buffer's mutex
segmentDelete_noBufferLock(t, pks, tss) ==
    /\ pc[t] = "idle"
    /\ \/ /\ Len(pks) <= 0
          /\ ReturnAtOnce(t, "segmentDelete", ErrEmptyPks, 0)
          /\ UNCHANGED records
       \/ /\ Len(pks) > 0
          /\ Len(pks) # Len(tss)
          /\ ReturnAtOnce(t, "segmentDelete", ErrLenMismatch, 0)
          /\ UNCHANGED records
       \/ /\ Len(pks) > 0
          /\ Len(pks) = Len(tss)
          /\ TryAppend(pks, tss)
          /\ IF TryAppendResult(pks, tss) = "true"
             THEN /\ Len(records) + Len(pks) <= MaxRecords
                  /\ ReturnAtOnce(t, "segmentDelete", NoErr, 0)
             ELSE /\ Enter(t, "segmentDelete", pks, tss)
                  /\ Goto(t, "deleteImpl")
                  /\ UNCHANGED <<loc>> /\ NoReturn
    /\ UNCHANGED <<segVars, statVars, lockVars, bufMut, flushed,
                   flushedDeletedTimestamp, engVars>>

\* segmentDelete: the two input checks, TryAppend, else deleteImpl
segmentDelete(t, pks, tss) ==
    /\ pc[t] = "idle"
    /\ \/ /\ Len(pks) <= 0
          /\ ReturnAtOnce(t, "segmentDelete", ErrEmptyPks, 0)
          /\ UNCHANGED records
       \/ /\ Len(pks) > 0
          /\ Len(pks) # Len(tss)
          /\ ReturnAtOnce(t, "segmentDelete", ErrLenMismatch, 0)
          /\ UNCHANGED records
       \/ /\ Len(pks) > 0
          /\ Len(pks) = Len(tss)
          /\ bufMut = NoThread
          /\ TryAppend(pks, tss)
          /\ IF TryAppendResult(pks, tss) = "true"
             THEN /\ Len(records) + Len(pks) <= MaxRecords
                  /\ ReturnAtOnce(t, "segmentDelete", NoErr, 0)
             ELSE /\ Enter(t, "segmentDelete", pks, tss)
                  /\ Goto(t, "deleteImpl")
                  /\ UNCHANGED <<loc>> /\ NoReturn
    /\ UNCHANGED <<segVars, statVars, lockVars, bufMut, flushed,
                   flushedDeletedTimestamp, engVars>>

\* a FlushDelete whose handler clears the watermark when it is given no record
FlushDelete_resetsWatermark(t) ==
    /\ pc[t] = "idle"
    /\ bufMut = NoThread
    /\ \E sorted \in SortByTimestamp(records) :
        IF Len(sorted) = 0
        THEN /\ records' = <<>>
             /\ flushed' = TRUE
             /\ flushedDeletedTimestamp' = 0
             /\ ReturnAtOnce(t, "FlushDelete", NoErr, 0)
             /\ UNCHANGED bufMut
        ELSE /\ records' = sorted
             /\ bufMut' = t
             /\ Enter(t, "FlushDelete", Keys(sorted), Stamps(sorted))
             /\ Goto(t, "deleteImpl")
             /\ UNCHANGED <<flushed, flushedDeletedTimestamp, loc>> /\ NoReturn
    /\ UNCHANGED <<segVars, statVars, lockVars, engVars>>

\* FlushDelete: Flush locks the buffer, sorts it and hands every record to
\* the handler, which returns at once when there is none
FlushDelete(t) ==
    /\ pc[t] = "idle"
    /\ bufMut = NoThread
    /\ \E sorted \in SortByTimestamp(records) :
        IF Len(sorted) = 0
        THEN /\ records' = <<>>
             /\ flushed' = TRUE
             /\ ReturnAtOnce(t, "FlushDelete", NoErr, 0)
             /\ UNCHANGED bufMut
        ELSE /\ records' = sorted
             /\ bufMut' = t
             /\ Enter(t, "FlushDelete", Keys(sorted), Stamps(sorted))
             /\ Goto(t, "deleteImpl")
             /\ UNCHANGED <<flushed, loc>> /\ NoReturn
    /\ UNCHANGED <<segVars, statVars, lockVars, flushedDeletedTimestamp, engVars>>

\* ------------------------------------------------------- deleteSegment
\* deleteSegment calls segment.mut.Lock() and waits for the readers to leave
deleteSegment(t) ==
    /\ pc[t] = "idle"
    /\ mutPending' = mutPending \cup {t}
    /\ Enter(t, "deleteSegment", <<>>, <<>>)
    /\ Goto(t, "Lock")
    /\ UNCHANGED <<segVars, statVars, mutReaders, mutWriter, bufVars,
                   flushedDeletedTimestamp, engVars, loc>> /\ NoReturn

\* segment.mut.Lock() returns
deleteSegmentLock(t) ==
    /\ pc[t] = "Lock"
    /\ CanLock(t)
    /\ mutPending' = mutPending \ {t}
    /\ mutWriter' = t
    /\ Goto(t, "locked")
    /\ UNCHANGED <<segVars, statVars, mutReaders, bufVars,
                   flushedDeletedTimestamp, engVars, op, loc>> /\ NoReturn

\* a setUnhealthy that flips the flag
setUnhealthy_toggles == destroyed' = ~destroyed

\* setUnhealthy: destroyed.Store(true)
setUnhealthy == destroyed' = TRUE

\* a deleteSegment that leaves the handle in segmentPtr
deleteSegmentDetach_keepsPtr(t) ==
    /\ pc[t] = "locked"
    /\ setUnhealthy
    /\ mutWriter' = NoThread
    /\ IF segmentPtr = Nil
       THEN Return(t, NoErr, 0, FALSE)
       ELSE /\ Goto(t, "C.DeleteSegment")
            /\ UNCHANGED <<op, loc>> /\ NoReturn
    /\ UNCHANGED <<segmentType, segmentPtr, recentlyModified, statVars, mutReaders,
                   mutPending, bufVars, flushedDeletedTimestamp, engVars>>

\* a deleteSegment that returns without segment.mut.Unlock()
deleteSegmentDetach_keepsLock(t) ==
    /\ pc[t] = "locked"
    /\ setUnhealthy
    /\ segmentPtr' = Nil
    /\ IF segmentPtr = Nil
       THEN Return(t, NoErr, 0, FALSE)
       ELSE /\ Goto(t, "C.DeleteSegment")
            /\ UNCHANGED <<op, loc>> /\ NoReturn
    /\ UNCHANGED <<segmentType, recentlyModified, statVars, lockVars,
                   bufVars, flushedDeletedTimestamp, engVars>>

\* under the write lock: setUnhealthy, cPtr = segmentPtr, segmentPtr = nil;
\* then Unlock, and nothing more when cPtr is nil
deleteSegmentDetach(t) ==
    /\ pc[t] = "locked"
    /\ setUnhealthy
    /\ segmentPtr' = Nil
    /\ mutWriter' = NoThread
    /\ IF segmentPtr = Nil
       THEN Return(t, NoErr, 0, FALSE)
       ELSE /\ Goto(t, "C.DeleteSegment")
            /\ UNCHANGED <<op, loc>> /\ NoReturn
    /\ UNCHANGED <<segmentType, recentlyModified, statVars, mutReaders,
                   mutPending, bufVars, flushedDeletedTimestamp, engVars>>

\* C.DeleteSegment(cPtr) returns; both generations of statistics are dropped,
\* without statLock
deleteSegmentRelease(t) ==
    /\ pc[t] = "C.DeleteSegment"
    /\ nativeReleased' = nativeReleased + 1
    /\ currentStat' = <<>>
    /\ historyStats' = <<>>
    /\ statRaced' = (statLock # NoThread)
    /\ Return(t, NoErr, 0, TRUE)
    /\ UNCHANGED <<segVars, statLock, lazyLoading, lockVars, bufVars,
                   flushedDeletedTimestamp, engDeleted, engLastTs, lateCalls>>

\* ------------------------------------------------------------- setType
\* setType: segmentType.Store(segType), whatever the type was
setType(t, segType) ==
    /\ pc[t] = "idle"
    /\ segmentType' = segType
    /\ ReturnAtOnce(t, "setType", NoErr, 0)
    /\ UNCHANGED <<destroyed, segmentPtr, recentlyModified, statVars, lockVars,
                   bufVars, flushedDeletedTimestamp, engVars>>

\* ------------------------------------- methods under the read lock
\* What every such method does once s.mut.RLock() returns: the health check,
\* then the checks it makes before its native call (pre is the error they end
\* in, or NoErr), then the native call `call` on s.segmentPtr, awaited.
LockedCall(t, name, pks, tss, sd, unhealthyVal, pre, call) ==
    /\ CanRLock
    /\ IF ~healthy
       THEN /\ ReturnOf(t, name, sd, ErrSegmentUnhealthy, unhealthyVal, FALSE)
            /\ UNCHANGED <<mutReaders, lateCalls>>
       ELSE IF pre # NoErr
       THEN /\ ReturnOf(t, name, sd, pre, 0, FALSE)
            /\ UNCHANGED <<mutReaders, lateCalls>>
       ELSE /\ mutReaders' = mutReaders \cup {t}
            /\ NativeCall(call)
            /\ pc' = [pc EXCEPT ![t] = call]
            /\ op' = [op EXCEPT ![t] = [name |-> name, pks |-> pks, tss |-> tss, sd |-> sd]]
            /\ UNCHANGED <<loc>> /\ NoReturn
    /\ UNCHANGED <<mutWriter, mutPending>>

\* the awaited native call returns; the deferred RUnlock runs as the method returns
CallReturns(t, err, val) ==
    /\ mutReaders' = mutReaders \ {t}
    /\ Return(t, err, val, TRUE)
    /\ UNCHANGED <<mutWriter, mutPending>>

\* hasRawData, getRealCount, getRowCount, getDeletedCount, getMemSize: the
\* value for an unhealthy segment (false, written 0, or -1), else the engine's
hasRawData(t) ==
    /\ pc[t] = "idle"
    /\ LockedCall(t, "hasRawData", <<>>, <<>>, destroyed, 0, NoErr, "C.HasRawData")
    /\ UNCHANGED <<segVars, statVars, bufVars, flushedDeletedTimestamp,
                   nativeReleased, engDeleted, engLastTs>>

getRealCount(t) ==
    /\ pc[t] = "idle"
    /\ LockedCall(t, "getRealCount", <<>>, <<>>, destroyed, -1, NoErr, "C.GetRealCount")
    /\ UNCHANGED <<segVars, statVars, bufVars, flushedDeletedTimestamp,
                   nativeReleased, engDeleted, engLastTs>>

\* a getRowCount that answers 0 for an unhealthy segment
getRowCount_unhealthyZero(t) ==
    /\ pc[t] = "idle"
    /\ LockedCall(t, "getRowCount", <<>>, <<>>, destroyed, 0, NoErr, "C.GetRowCount")
    /\ UNCHANGED <<segVars, statVars, bufVars, flushedDeletedTimestamp,
                   nativeReleased, engDeleted, engLastTs>>

getRowCount(t) ==
    /\ pc[t] = "idle"
    /\ LockedCall(t, "getRowCount", <<>>, <<>>, destroyed, -1, NoErr, "C.GetRowCount")
    /\ UNCHANGED <<segVars, statVars, bufVars, flushedDeletedTimestamp,
                   nativeReleased, engDeleted, engLastTs>>

getDeletedCount(t) ==
    /\ pc[t] = "idle"
    /\ LockedCall(t, "getDeletedCount", <<>>, <<>>, destroyed, -1, NoErr, "C.GetDeletedCount")
    /\ UNCHANGED <<segVars, statVars, bufVars, flushedDeletedTimestamp,
                   nativeReleased, engDeleted, engLastTs>>

getMemSize(t) ==
    /\ pc[t] = "idle"
    /\ LockedCall(t, "getMemSize", <<>>, <<>>, destroyed, -1, NoErr, "C.GetMemoryUsageInBytes")
    /\ UNCHANGED <<segVars, statVars, bufVars, flushedDeletedTimestamp,
                   nativeReleased, engDeleted, engLastTs>>

StatCalls == {"C.HasRawData", "C.GetRealCount", "C.GetRowCount", "C.GetDeletedCount",
              "C.GetMemoryUsageInBytes"}

\* the engine answers a stat query: a bool (0 or 1) or a count, which for
\* GetDeletedCount is the number of keys deleted in it
statReturns(t) ==
    /\ pc[t] \in StatCalls
    /\ \E answer \in {0, 1} :
        CallReturns(t, NoErr, IF pc[t] = "C.HasRawData" THEN answer
                              ELSE IF pc[t] = "C.GetDeletedCount" THEN Cardinality(engDeleted)
                              ELSE 0)
    /\ UNCHANGED <<segVars, statVars, bufVars, flushedDeletedTimestamp, engVars>>

\* search: the health check, the nil plan check, then C.Search
search_noPlanCheck(t, plan) ==
    /\ pc[t] = "idle"
    /\ LockedCall(t, "search", <<>>, <<>>, destroyed, 0, NoErr, "C.Search")
    /\ UNCHANGED <<segVars, statVars, bufVars, flushedDeletedTimestamp,
                   nativeReleased, engDeleted, engLastTs>>

search(t, plan) ==
    /\ pc[t] = "idle"
    /\ LockedCall(t, "search", <<>>, <<>>, destroyed, 0,
                  IF plan = Nil THEN ErrNilPlan ELSE NoErr, "C.Search")
    /\ UNCHANGED <<segVars, statVars, bufVars, flushedDeletedTimestamp,
                   nativeReleased, engDeleted, engLastTs>>

\* retrieve: the health check, then C.Retrieve
retrieve(t) ==
    /\ pc[t] = "idle"
    /\ LockedCall(t, "retrieve", <<>>, <<>>, destroyed, 0, NoErr, "C.Retrieve")
    /\ UNCHANGED <<segVars, statVars, bufVars, flushedDeletedTimestamp,
                   nativeReleased, engDeleted, engLastTs>>

\* LoadFieldData and LoadMultiFieldData: the health check, the building of
\* the load info (infoErr is how it ends), then C.LoadFieldData
LoadFieldData(t, infoErr) ==
    /\ pc[t] = "idle"
    /\ LockedCall(t, "LoadFieldData", <<>>, <<>>, destroyed, 0, infoErr, "C.LoadFieldData")
    /\ UNCHANGED <<segVars, statVars, bufVars, flushedDeletedTimestamp,
                   nativeReleased, engDeleted, engLastTs>>

LoadMultiFieldData(t, infoErr) ==
    /\ pc[t] = "idle"
    /\ LockedCall(t, "LoadMultiFieldData", <<>>, <<>>, destroyed, 0, infoErr, "C.LoadFieldData")
    /\ UNCHANGED <<segVars, statVars, bufVars, flushedDeletedTimestamp,
                   nativeReleased, engDeleted, engLastTs>>

\* C.Search, C.Retrieve, C.LoadFieldData or C.UpdateSealedSegmentIndex
\* returns its status, which HandleCStatus turns into the error
StatusCalls == {"C.Search", "C.Retrieve", "C.LoadFieldData",
                "C.UpdateSealedSegmentIndex"}

statusReturns(t) ==
    /\ pc[t] \in StatusCalls
    /\ \E status \in {NoErr, ErrNative} : CallReturns(t, status, 0)
    /\ UNCHANGED <<segVars, statVars, bufVars, flushedDeletedTimestamp, engVars>>

\* segmentPreInsert reads the type before it locks: not Growing, (0, nil)
segmentPreInsert(t) ==
    /\ pc[t] = "idle"
    /\ IF segmentType # segmentTypeGrowing
       THEN ReturnAtOnce(t, "segmentPreInsert", NoErr, 0)
       ELSE /\ Enter(t, "segmentPreInsert", <<>>, <<>>)
            /\ Goto(t, "PreInsert")
            /\ UNCHANGED <<loc>> /\ NoReturn
    /\ UNCHANGED <<segVars, statVars, lockVars, bufVars, flushedDeletedTimestamp, engVars>>

\* then, locked: unhealthy, (-1, error); else C.PreInsert
segmentPreInsertLocked(t) ==
    /\ pc[t] = "PreInsert"
    /\ LockedCall(t, "segmentPreInsert", <<>>, <<>>, op[t].sd, -1, NoErr, "C.PreInsert")
    /\ UNCHANGED <<segVars, statVars, bufVars, flushedDeletedTimestamp,
                   nativeReleased, engDeleted, engLastTs>>

\* C.PreInsert runs: the engine writes the offset it reserved to offset
segmentPreInsertNative(t) ==
    /\ pc[t] = "C.PreInsert"
    /\ \E offset \in 0..MaxOffset :
        loc' = [loc EXCEPT ![t] = [pks |-> <<>>, tss |-> <<offset>>]]
    /\ Goto(t, "HandleCStatus")
    /\ NoReturn
    /\ UNCHANGED <<segVars, statVars, lockVars, bufVars, flushedDeletedTimestamp,
                   engVars, op>>

\* a segmentPreInsert that returns offset also when the call failed
segmentPreInsertExit_keepsOffset(t) ==
    /\ pc[t] = "HandleCStatus"
    /\ \E status \in {NoErr, ErrNative} : CallReturns(t, status, loc[t].tss[1])
    /\ UNCHANGED <<segVars, statVars, bufVars, flushedDeletedTimestamp, engVars>>

\* HandleCStatus: (0, err) for a non-zero status, else (offset, nil)
segmentPreInsertExit(t) ==
    /\ pc[t] = "HandleCStatus"
    /\ \E status \in {NoErr, ErrNative} :
        CallReturns(t, status, IF status = NoErr THEN loc[t].tss[1] ELSE 0)
    /\ UNCHANGED <<segVars, statVars, bufVars, flushedDeletedTimestamp, engVars>>

\* segmentInsert reads the type before it locks: not Growing, an error
segmentInsert(t) ==
    /\ pc[t] = "idle"
    /\ IF segmentType # segmentTypeGrowing
       THEN ReturnAtOnce(t, "segmentInsert", ErrIllegalType, 0)
       ELSE /\ Enter(t, "segmentInsert", <<>>, <<>>)
            /\ Goto(t, "Insert")
            /\ UNCHANGED <<loc>> /\ NoReturn
    /\ UNCHANGED <<segVars, statVars, lockVars, bufVars, flushedDeletedTimestamp, engVars>>

\* then, locked: the health check, proto.Marshal(record) (marshalErr is how
\* it ends), &entityIDs[0] (out of range for numOfRow = 0), C.Insert
segmentInsertLocked(t, marshalErr, numOfRow) ==
    /\ pc[t] = "Insert"
    /\ LockedCall(t, "segmentInsert", <<>>, <<>>, op[t].sd, 0,
                  IF marshalErr # NoErr THEN marshalErr
                  ELSE IF numOfRow = 0 THEN Panic ELSE NoErr, "C.Insert")
    /\ UNCHANGED <<segVars, statVars, bufVars, flushedDeletedTimestamp,
                   nativeReleased, engDeleted, engLastTs>>

\* C.Insert returns its status; on success setRecentlyModified(true)
segmentInsertExit(t) ==
    /\ pc[t] = "C.Insert"
    /\ \E status \in {NoErr, ErrNative} :
        /\ recentlyModified' = IF status = NoErr THEN TRUE ELSE recentlyModified
        /\ CallReturns(t, status, 0)
    /\ UNCHANGED <<segmentType, destroyed, segmentPtr, statVars, bufVars,
                   flushedDeletedTimestamp, engVars>>

\* segmentLoadDeletedRecord starts with deleteBuffer.TryAppend, and returns
\* nil when that took the records
segmentLoadDeletedRecord(t, pks, tss) ==
    /\ pc[t] = "idle"
    /\ bufMut = NoThread
    /\ TryAppend(pks, tss)
    /\ IF TryAppendResult(pks, tss) = "true"
       THEN /\ Len(records) + Len(pks) <= MaxRecords
            /\ ReturnAtOnce(t, "segmentLoadDeletedRecord", NoErr, 0)
       ELSE IF TryAppendResult(pks, tss) = Panic
       THEN /\ Len(records) + Len(tss) <= MaxRecords
            /\ ReturnAtOnce(t, "segmentLoadDeletedRecord", Panic, 0)
       ELSE /\ Enter(t, "segmentLoadDeletedRecord", pks, tss)
            /\ Goto(t, "LoadDeletedRecord")
            /\ UNCHANGED <<loc>> /\ NoReturn
    /\ UNCHANGED <<segVars, statVars, lockVars, bufMut, flushed,
                   flushedDeletedTimestamp, engVars>>

\* then, locked: the health check, the empty check, the key type,
\* &timestamps[0] (out of range for no timestamp), C.LoadDeletedRecord
segmentLoadDeletedRecordLocked(t) ==
    /\ pc[t] = "LoadDeletedRecord"
    /\ LockedCall(t, "segmentLoadDeletedRecord", op[t].pks, op[t].tss, op[t].sd, 0,
                  IF Len(op[t].pks) <= 0 THEN ErrEmptyPks
                  ELSE IF op[t].pks[1].Type \notin {"Int64", "VarChar"} THEN ErrInvalidPkType
                  ELSE IF Len(op[t].tss) = 0 THEN Panic
                  ELSE NoErr, "C.LoadDeletedRecord")
    /\ UNCHANGED <<segVars, statVars, bufVars, flushedDeletedTimestamp,
                   nativeReleased, engDeleted, engLastTs>>

\* C.LoadDeletedRecord returns its status: on success the keys are deleted
\* in the engine
segmentLoadDeletedRecordExit(t) ==
    /\ pc[t] = "C.LoadDeletedRecord"
    /\ \E status \in {NoErr, ErrNative} :
        /\ engDeleted' = IF status = NoErr
                         THEN engDeleted \cup {op[t].pks[i] : i \in 1..Len(op[t].pks)}
                         ELSE engDeleted
        /\ CallReturns(t, status, 0)
    /\ UNCHANGED <<segVars, statVars, bufVars, flushedDeletedTimestamp,
                   nativeReleased, engLastTs, lateCalls>>

\* segmentLoadIndexData builds the load index info (infoErr is how that ends)
\* and reads the type before it locks: not Sealed, an error
segmentLoadIndexData(t, infoErr) ==
    /\ pc[t] = "idle"
    /\ IF infoErr # NoErr
       THEN ReturnAtOnce(t, "segmentLoadIndexData", infoErr, 0)
       ELSE IF segmentType # segmentTypeSealed
       THEN ReturnAtOnce(t, "segmentLoadIndexData", ErrIllegalType, 0)
       ELSE /\ Enter(t, "segmentLoadIndexData", <<>>, <<>>)
            /\ Goto(t, "UpdateSealedSegmentIndex")
            /\ UNCHANGED <<loc>> /\ NoReturn
    /\ UNCHANGED <<segVars, statVars, lockVars, bufVars, flushedDeletedTimestamp, engVars>>

\* then, locked: the health check, C.UpdateSealedSegmentIndex
segmentLoadIndexDataLocked(t) ==
    /\ pc[t] = "UpdateSealedSegmentIndex"
    /\ LockedCall(t, "segmentLoadIndexData", <<>>, <<>>, op[t].sd, 0, NoErr,
                  "C.UpdateSealedSegmentIndex")
    /\ UNCHANGED <<segVars, statVars, bufVars, flushedDeletedTimestamp,
                   nativeReleased, engDeleted, engLastTs>>

\* UpdateFieldRawDataSize hands s.segmentPtr to C.UpdateFieldRawDataSize: no
\* lock is taken and healthy() is not asked
UpdateFieldRawDataSize(t) ==
    /\ pc[t] = "idle"
    /\ NativeCall("C.UpdateFieldRawDataSize")
    /\ Enter(t, "UpdateFieldRawDataSize", <<>>, <<>>)
    /\ Goto(t, "C.UpdateFieldRawDataSize")
    /\ UNCHANGED <<segVars, statVars, lockVars, bufVars, flushedDeletedTimestamp,
                   nativeReleased, engDeleted, engLastTs, loc>> /\ NoReturn

\* C.UpdateFieldRawDataSize returns its status; handed the pointer of a
\* destroyed segment, it may as well crash
UpdateFieldRawDataSizeExit(t) ==
    /\ pc[t] = "C.UpdateFieldRawDataSize"
    /\ \E status \in {NoErr, ErrNative} \cup (IF destroyed THEN {Panic} ELSE {}) :
        Return(t, status, 0, TRUE)
    /\ UNCHANGED <<segVars, statVars, lockVars, bufVars, flushedDeletedTimestamp, engVars>>

\* ------------------------------------------- primary key statistics
\* common.Endian.PutUint64(buf, uint64(v)): the 8 bytes of v, lowest first
RECURSIVE PutBytes(_, _)
PutBytes(v, n) == IF n = 0 THEN <<>> ELSE <<v % 256>> \o PutBytes(v \div 256, n - 1)

PutUint64(v) == PutBytes(v, 8)

\* the bytes updateBloomFilter hands to the filter: buf for an Int64 key, the
\* bytes of the string for a VarChar key
PkBytes(pk) == IF pk.Type = "Int64" THEN PutUint64(pk.Value) ELSE pk.Value

RECURSIVE SumBytes(_)
SumBytes(data) == IF data = <<>> THEN 0 ELSE data[1] + SumBytes(Tail(data))

\* the bloom filter: the bits that data sets and tests
BloomLocations(data) ==
    {SumBytes(data) % BloomBits, (SumBytes(data) + Len(data)) % BloomBits}

BloomAdd(filter, data) == filter \cup BloomLocations(data)

BloomTest(filter, data) == BloomLocations(data) \subseteq filter

\* the order of primary keys: of numbers, or of strings byte by byte; keys
\* of two types are not ordered
RECURSIVE SeqLess(_, _)
SeqLess(a, b) ==
    IF b = <<>> THEN FALSE
    ELSE IF a = <<>> THEN TRUE
    ELSE IF a[1] # b[1] THEN a[1] < b[1]
    ELSE SeqLess(Tail(a), Tail(b))

LT(a, b) ==
    /\ a.Type = b.Type
    /\ IF a.Type = "VarChar" THEN SeqLess(a.Value, b.Value) ELSE a.Value < b.Value

GT(a, b) == LT(b, a)

\* PkStatistics.UpdateMinMax: the running minimum and maximum
UpdateMinMax(st, pk) ==
    [st EXCEPT !.MinPK = IF st.MinPK = <<>> \/ GT(st.MinPK[1], pk) THEN <<pk>> ELSE @,
               !.MaxPK = IF st.MaxPK = <<>> \/ LT(st.MaxPK[1], pk) THEN <<pk>> ELSE @]

\* PkStatistics.PkExist: within the minimum and the maximum, and in the filter
PkExist(st, pk) ==
    /\ st.MinPK # <<>>
    /\ st.MaxPK # <<>>
    /\ ~GT(st.MinPK[1], pk)
    /\ ~LT(st.MaxPK[1], pk)
    /\ pk.Type \in {"Int64", "VarChar"}
    /\ BloomTest(st.PkFilter, PkBytes(pk))

\* InitCurrentStat's new PkStatistics: an empty filter, no minimum, no maximum
\* (keys, which the code does not have, lists what has been added)
NewPkStatistics == [PkFilter |-> {}, MinPK |-> <<>>, MaxPK |-> <<>>, keys |-> {}]

\* the loop of updateBloomFilter over pks: UpdateMinMax, then Add or AddString,
\* or the panic for a key of another type
RECURSIVE AddKeys(_, _)
AddKeys(st, pks) ==
    IF pks = <<>> THEN [stat |-> st, panic |-> FALSE]
    ELSE IF pks[1].Type \notin {"Int64", "VarChar"}
    THEN [stat |-> UpdateMinMax(st, pks[1]), panic |-> TRUE]
    ELSE AddKeys([UpdateMinMax(st, pks[1]) EXCEPT
                      !.PkFilter = BloomAdd(@, PkBytes(pks[1])),
                      !.keys = @ \cup {pks[1]}],
                 Tail(pks))

\* updateBloomFilter takes statLock
updateBloomFilter(t, pks) ==
    /\ pc[t] = "idle"
    /\ statLock = NoThread
    /\ statLock' = t
    /\ Enter(t, "updateBloomFilter", pks, <<>>)
    /\ Goto(t, "updateBloomFilter")
    /\ NoReturn
    /\ UNCHANGED <<segVars, lockVars, bufVars, flushedDeletedTimestamp, engVars,
                   currentStat, historyStats, lazyLoading, statRaced, loc>>

\* then InitCurrentStat and the loop; the deferred Unlock. currentStat
\* written to nil by deleteSegment meanwhile, the loop may as well hit nil
updateBloomFilterLocked(t) ==
    /\ pc[t] = "updateBloomFilter"
    /\ LET r == AddKeys(IF currentStat = <<>> THEN NewPkStatistics ELSE currentStat[1],
                        op[t].pks)
       IN  \/ /\ currentStat' = <<r.stat>>
              /\ Return(t, IF r.panic THEN Panic ELSE NoErr, 0, FALSE)
           \/ /\ statRaced
              /\ currentStat' = <<>>
              /\ Return(t, Panic, 0, FALSE)
    /\ statLock' = NoThread
    /\ statRaced' = FALSE
    /\ UNCHANGED <<segVars, lockVars, bufVars, flushedDeletedTimestamp, engVars,
                   historyStats, lazyLoading>>

\* an isPKExist that leaves out the keys deleted in the engine
isPKExistResult_withoutDeleted(pk) ==
    /\ pk \notin engDeleted
    /\ \/ currentStat # <<>> /\ PkExist(currentStat[1], pk)
       \/ \E i \in DOMAIN historyStats : PkExist(historyStats[i], pk)

\* an isPKExist that forgets the historical generations
isPKExistResult_currentOnly(pk) == currentStat # <<>> /\ PkExist(currentStat[1], pk)

\* what isPKExist answers under statLock: the current generation, then each
\* historical one
isPKExistResult(pk) ==
    \/ currentStat # <<>> /\ PkExist(currentStat[1], pk)
    \/ \E i \in DOMAIN historyStats : PkExist(historyStats[i], pk)

\* an isPKExist that does not ask isLazyLoading
isPKExist_ignoresLazy(t, pk) ==
    /\ pc[t] = "idle"
    /\ statLock = NoThread
    /\ statLock' = t
    /\ Enter(t, "isPKExist", <<pk>>, <<>>)
    /\ Goto(t, "isPKExist")
    /\ NoReturn
    /\ UNCHANGED <<segVars, lockVars, bufVars, flushedDeletedTimestamp, engVars,
                   currentStat, historyStats, lazyLoading, statRaced, loc>>

\* isPKExist: true at once while lazy loading, else it takes statLock
isPKExist(t, pk) ==
    /\ pc[t] = "idle"
    /\ IF lazyLoading
       THEN /\ ReturnAtOnce(t, "isPKExist", NoErr, 1)
            /\ UNCHANGED statLock
       ELSE /\ statLock = NoThread
            /\ statLock' = t
            /\ Enter(t, "isPKExist", <<pk>>, <<>>)
            /\ Goto(t, "isPKExist")
            /\ NoReturn
            /\ UNCHANGED loc
    /\ UNCHANGED <<segVars, lockVars, bufVars, flushedDeletedTimestamp, engVars,
                   currentStat, historyStats, lazyLoading, statRaced>>

\* then the answer (true is 1) and the deferred Unlock. currentStat written
\* to nil by deleteSegment meanwhile, any answer or a nil dereference
isPKExistLocked(t) ==
    /\ pc[t] = "isPKExist"
    /\ \/ Return(t, NoErr, IF isPKExistResult(op[t].pks[1]) THEN 1 ELSE 0, FALSE)
       \/ /\ statRaced
          /\ \/ \E answer \in {0, 1} : Return(t, NoErr, answer, FALSE)
             \/ Return(t, Panic, 0, FALSE)
    /\ statLock' = NoThread
    /\ statRaced' = FALSE
    /\ UNCHANGED <<segVars, lockVars, bufVars, flushedDeletedTimestamp, engVars,
                   currentStat, historyStats, lazyLoading>>

\* a historical generation, built elsewhere from the keys pks, is appended
appendHistoryStat(pks) ==
    /\ statLock = NoThread
    /\ Len(historyStats) < MaxHistory
    /\ historyStats' = Append(historyStats, AddKeys(NewPkStatistics, pks).stat)
    /\ NoReturn
    /\ UNCHANGED <<segVars, lockVars, bufVars, flushedDeletedTimestamp, engVars,
                   statLock, currentStat, lazyLoading, statRaced, pc, op, loc>>

\* the lazy loading of the filters starts or ends
setLazyLoading(b) ==
    /\ lazyLoading # b
    /\ lazyLoading' = b
    /\ NoReturn
    /\ UNCHANGED <<segVars, lockVars, bufVars, flushedDeletedTimestamp, engVars,
                   statLock, currentStat, historyStats, statRaced, pc, op, loc>>

\* ------------------------------------- the statistics and the destroy
PkKeys == Int64Keys \cup {VarCharPK(<<1>>)}

\* the batches of keys the callers pass: none, one key, and one with a key of
\* a type that is no primary key type
PkBatches == {<<>>, <<OtherPK(0)>>} \cup {<<pk>> : pk \in PkKeys}

NextPK ==
    /\ UNCHANGED <<trial, fill, pool, indexedFieldInfos, located>>
    /\ \/ \E t \in Threads :
            \/ \E pks \in PkBatches : updateBloomFilter(t, pks)
            \/ updateBloomFilterLocked(t)
            \/ \E pk \in PkKeys : isPKExist(t, pk)
            \/ isPKExistLocked(t)
            \/ deleteSegment(t)
            \/ deleteSegmentLock(t)
            \/ deleteSegmentDetach(t)
            \/ deleteSegmentRelease(t)
       \/ \E pk \in PkKeys : appendHistoryStat(<<pk>>)
       \/ \E b \in BOOLEAN : setLazyLoading(b)

SpecPK == Init /\ [][NextPK]_vars

\* ------------------------------------- the statistics and the deletes
NextIndex ==
    /\ UNCHANGED <<trial, fill, pool, indexedFieldInfos, located>>
    /\ \/ \E t \in {"t1"} :
            \/ \E pks \in PkBatches : updateBloomFilter(t, pks)
            \/ updateBloomFilterLocked(t)
            \/ \E pk \in PkKeys : isPKExist(t, pk)
            \/ isPKExistLocked(t)
            \/ \E pk \in Int64Keys : segmentDelete(t, <<pk>>, <<1>>)
            \/ FlushDelete(t)
            \/ deleteImplEnter(t)
            \/ deleteImplExit(t)
       \/ \E pk \in Int64Keys : appendHistoryStat(<<pk>>)

SpecIndex == Init /\ [][NextIndex]_vars

\* ------------------------------------------------- the whole segment
\* the batches the callers pass: a well-formed one, an empty one, one whose
\* timestamps are missing
Batches ==
    {[pks |-> <<Int64PK(1)>>, tss |-> <<1>>],
     [pks |-> <<>>, tss |-> <<>>],
     [pks |-> <<Int64PK(2)>>, tss |-> <<>>]}

Next ==
    /\ UNCHANGED <<trial, fill, pool, indexedFieldInfos, located>>
    /\ \E t \in Threads :
        \/ \E b \in Batches : segmentDelete(t, b.pks, b.tss)
        \/ FlushDelete(t)
        \/ deleteImplEnter(t)
        \/ deleteImplExit(t)
        \/ deleteSegment(t)
        \/ deleteSegmentLock(t)
        \/ deleteSegmentDetach(t)
        \/ deleteSegmentRelease(t)
        \/ hasRawData(t)
        \/ getRealCount(t)
        \/ getRowCount(t)
        \/ getDeletedCount(t)
        \/ getMemSize(t)
        \/ statReturns(t)
        \/ \E plan \in {Nil, "plan"} : search(t, plan)
        \/ retrieve(t)
        \/ \E infoErr \in {NoErr, ErrLoadInfo} : LoadFieldData(t, infoErr)
        \/ \E infoErr \in {NoErr, ErrLoadInfo} : LoadMultiFieldData(t, infoErr)
        \/ statusReturns(t)
        \/ segmentPreInsert(t)
        \/ segmentPreInsertLocked(t)
        \/ segmentPreInsertNative(t)
        \/ segmentPreInsertExit(t)
        \/ segmentInsert(t)
        \/ \E marshalErr \in {NoErr, ErrMarshal}, numOfRow \in {0, 1} :
               segmentInsertLocked(t, marshalErr, numOfRow)
        \/ segmentInsertExit(t)
        \/ \E b \in Batches : segmentLoadDeletedRecord(t, b.pks, b.tss)
        \/ segmentLoadDeletedRecordLocked(t)
        \/ segmentLoadDeletedRecordExit(t)
        \/ \E infoErr \in {NoErr, ErrLoadInfo} : segmentLoadIndexData(t, infoErr)
        \/ segmentLoadIndexDataLocked(t)
        \/ UpdateFieldRawDataSize(t)
        \/ UpdateFieldRawDataSizeExit(t)
        \/ \E segType \in {segmentTypeGrowing, segmentTypeSealed} : setType(t, segType)

Spec == Init /\ [][Next]_vars

\* --------------------------------------------- the tombstone buffer alone
DeleteBatches ==
    {b \in [pks : SeqsUpTo(Int64Keys, MaxBatch), tss : SeqsUpTo(Timestamps, MaxBatch)] :
        Len(b.pks) = Len(b.tss) \/ Len(b.pks) + Len(b.tss) <= 1}

NextDelete ==
    /\ UNCHANGED <<trial, fill, pool, indexedFieldInfos, located>>
    /\ \E t \in {"t1"} :
        \/ \E b \in DeleteBatches : segmentDelete(t, b.pks, b.tss)
        \/ FlushDelete(t)
        \/ \E b \in DeleteBatches : segmentLoadDeletedRecord(t, b.pks, b.tss)
        \/ segmentLoadDeletedRecordLocked(t)
        \/ segmentLoadDeletedRecordExit(t)
        \/ deleteImplEnter(t)
        \/ deleteImplExit(t)
        \/ deleteSegment(t)
        \/ deleteSegmentLock(t)
        \/ deleteSegmentDetach(t)
        \/ deleteSegmentRelease(t)

SpecDelete == Init /\ [][NextDelete]_vars

\* ------------------------------- appends racing with a flush, two threads
\* the batches of the racing callers: two keys, two timestamps
RaceBatches ==
    {[pks |-> <<Int64PK(1)>>, tss |-> <<1>>],
     [pks |-> <<Int64PK(2)>>, tss |-> <<2>>]}

NextRace ==
    /\ UNCHANGED <<trial, fill, pool, indexedFieldInfos, located>>
    /\ \E t \in Threads :
        \/ \E b \in RaceBatches : segmentDelete(t, b.pks, b.tss)
        \/ FlushDelete(t)
        \/ deleteImplEnter(t)
        \/ deleteImplExit(t)

SpecRace == Init /\ [][NextRace]_vars

\* --------------------------------- readers, a flush and the destruction
\* a method begins: the readers (search, retrieve, segmentInsert, the
\* deleteImpl of segmentDelete), FlushDelete, deleteSegment
Begin(t) ==
    \/ segmentDelete(t, <<Int64PK(1)>>, <<1>>)
    \/ FlushDelete(t)
    \/ deleteSegment(t)
    \/ search(t, "plan")
    \/ retrieve(t)
    \/ segmentInsert(t)

\* a method that has begun goes on: it gets the lock it waits for, or the
\* engine call it awaits returns
Proceed(t) ==
    /\ UNCHANGED <<trial, fill, pool, indexedFieldInfos, located>>
    /\ \/ deleteImplEnter(t)
       \/ deleteImplExit(t)
       \/ deleteSegmentLock(t)
       \/ deleteSegmentDetach(t)
       \/ deleteSegmentRelease(t)
       \/ statusReturns(t)
       \/ segmentInsertLocked(t, NoErr, 1)
       \/ segmentInsertExit(t)

NextLive ==
    \E t \in Threads :
        \/ UNCHANGED <<trial, fill, pool, indexedFieldInfos, located>> /\ Begin(t)
        \/ Proceed(t)

\* every engine call returns and the scheduling is fair: a goroutine that can
\* go on again and again does go on (sync.RWMutex admits the readers that
\* waited before the next writer, sync.Mutex hands over to a starved waiter)
SpecLive ==
    /\ Init
    /\ [][NextLive]_vars
    /\ \A t \in Threads : SF_vars(Proceed(t))

\* ------------------------------------- the two delete paths, side by side
\* One batch is applied twice, each time to a new segment: first directly
\* (segmentDelete after a Flush of the empty buffer, so that TryAppend returns
\* false and deleteImpl is reached), then through the buffer (segmentDelete,
\* which buffers it, then FlushDelete).
TrialBatches ==
    {b \in [pks : SeqsUpTo(Int64Keys, MaxRecords), tss : SeqsUpTo(Timestamps, MaxRecords)] :
        Len(b.pks) > 0 /\ Len(b.pks) = Len(b.tss)}

InitTrial ==
    /\ InitThreads
    /\ \E b \in TrialBatches :
        trial = [phase |-> "flushEmpty", pks |-> b.pks, tss |-> b.tss, direct |-> <<>>]
    /\ fill = NoFill
    /\ pool = NoPool
    /\ indexedFieldInfos = NoInfos
    /\ located = NoLocated

Phase(p) == trial' = [trial EXCEPT !.phase = p]

TrialFlushEmpty(t) ==
    /\ trial.phase = "flushEmpty"
    /\ FlushDelete(t)
    /\ Phase("direct")

TrialDirect(t) ==
    /\ trial.phase = "direct"
    /\ segmentDelete(t, trial.pks, trial.tss)
    /\ Phase("directRuns")

TrialDeleteImpl(t) ==
    /\ deleteImplEnter(t) \/ deleteImplExit(t)
    /\ UNCHANGED trial

\* the direct run is over: its outcome is kept and the segment replaced by a new one
TrialNewSegment(t) ==
    /\ trial.phase = "directRuns"
    /\ pc[t] = "idle"
    /\ trial' = [trial EXCEPT !.phase = "buffer",
                              !.direct = <<[err |-> ret[t].err,
                                            watermark |-> flushedDeletedTimestamp,
                                            deleted |-> engDeleted]>>]
    /\ newSegmentAgain(segmentType)
    /\ UNCHANGED <<pc, op, loc, ret>>

TrialBuffer(t) ==
    /\ trial.phase = "buffer"
    /\ segmentDelete(t, trial.pks, trial.tss)
    /\ Phase("flush")

TrialFlush(t) ==
    /\ trial.phase = "flush"
    /\ FlushDelete(t)
    /\ Phase("flushRuns")

TrialDone(t) ==
    /\ trial.phase = "flushRuns"
    /\ pc[t] = "idle"
    /\ Phase("done")
    /\ UNCHANGED <<segVars, statVars, lockVars, bufVars, flushedDeletedTimestamp,
                   engVars, pc, op, loc, ret>>

NextTrial ==
    /\ \E t \in {"t1"} :
        \/ TrialFlushEmpty(t)
        \/ TrialDirect(t)
        \/ TrialDeleteImpl(t)
        \/ TrialNewSegment(t)
        \/ TrialBuffer(t)
        \/ TrialFlush(t)
        \/ TrialDone(t)
    /\ UNCHANGED <<fill, pool, indexedFieldInfos, located>>

SpecTrial == InitTrial /\ [][NextTrial]_vars

\* ------------------------------------------------------ field hydration
\* the binlogs of an indexed field, in order, with their numbers of rows
Binlogs == <<[LogPath |-> "binlog/1", EntriesNum |-> 2],
             [LogPath |-> "binlog/2", EntriesNum |-> 6]>>

\* getFieldDataPath: walk the binlogs, subtracting the entries of each, until
\* the offset falls inside one
\* a walk that stops at a binlog when the offset is its number of entries
RECURSIVE getFieldDataPathFrom_inclusive(_, _, _)
getFieldDataPathFrom_inclusive(binlogs, k, offsetInBinlog) ==
    IF k > Len(binlogs)
    THEN [dataPath |-> "", offsetInBinlog |-> offsetInBinlog]
    ELSE IF offsetInBinlog <= binlogs[k].EntriesNum
    THEN [dataPath |-> binlogs[k].LogPath, offsetInBinlog |-> offsetInBinlog]
    ELSE getFieldDataPathFrom_inclusive(binlogs, k + 1, offsetInBinlog - binlogs[k].EntriesNum)

RECURSIVE getFieldDataPathFrom(_, _, _)
getFieldDataPathFrom(binlogs, k, offsetInBinlog) ==
    IF k > Len(binlogs)
    THEN [dataPath |-> "", offsetInBinlog |-> offsetInBinlog]
    ELSE IF offsetInBinlog < binlogs[k].EntriesNum
    THEN [dataPath |-> binlogs[k].LogPath, offsetInBinlog |-> offsetInBinlog]
    ELSE getFieldDataPathFrom(binlogs, k + 1, offsetInBinlog - binlogs[k].EntriesNum)

getFieldDataPath(binlogs, offset) == getFieldDataPathFrom(binlogs, 1, offset)

\* the lists of binlogs of a field: one to MaxBinlogs binlogs, the k-th with
\* its own path and up to MaxEntries rows
LogPathOf(k) ==
    CASE k = 1 -> "binlog/1" [] k = 2 -> "binlog/2" [] k = 3 -> "binlog/3"
      [] OTHER -> "binlog/4"

BinlogLists ==
    {[k \in 1..Len(nums) |-> [LogPath |-> LogPathOf(k), EntriesNum |-> nums[k]]] :
        nums \in SeqsUpTo(0..MaxEntries, MaxBinlogs) \ {<<>>}}

\* getFieldDataPath is called for a row offset of a field with these binlogs
getFieldDataPathCall ==
    /\ located.result = <<>>
    /\ located' = [located EXCEPT
                       !.result = <<getFieldDataPath(located.binlogs, located.offset)>>]
    /\ UNCHANGED <<segVars, statVars, lockVars, bufVars, flushedDeletedTimestamp,
                   engVars, pc, op, loc, ret, trial, fill, pool, indexedFieldInfos>>

InitPath ==
    /\ InitThreads
    /\ trial = NoTrial
    /\ fill = NoFill
    /\ pool = NoPool
    /\ indexedFieldInfos = NoInfos
    /\ \E binlogs \in BinlogLists, offset \in 0..(MaxBinlogs * MaxEntries) :
        located = [binlogs |-> binlogs, offset |-> offset, result |-> <<>>]

NextPath == getFieldDataPathCall

SpecPath == InitPath /\ [][NextPath]_vars

\* the remote store: the byte at a position of a blob
ByteAt(dataPath, p) == (p * 7 + (IF dataPath = "binlog/1" THEN 1 ELSE 5)) % 256

\* vcm.ReadAt: the bytes of the range, one byte fewer from a truncated blob
ReadOutcomes == {"ok", "fetchErr", "short"}
ReadAt(dataPath, off, length, outcome) ==
    LET n == IF outcome = "short" /\ length > 0 THEN length - 1 ELSE length
    IN  [k \in 1..n |-> ByteAt(dataPath, off + k - 1)]

\* binary.Read of one little-endian float32: its bits, the most significant
\* byte first
Float32LE(content, j) ==
    <<content[4 * j], content[4 * j - 1], content[4 * j - 2], content[4 * j - 3]>>

\* a slot of the result that nothing has been copied to
Unfilled(Type) == IF Type = "FloatVector" THEN <<>> ELSE -1

\* copy(dst[from:to], src), with from and to counted from 0
CopyTo(dst, from, to, src) ==
    [k \in 1..Len(dst) |->
        IF k > from /\ k <= to /\ k - from <= Len(src) THEN src[k - from] ELSE dst[k]]

\* a fillFloatVecFieldData that reads at the row offset, not the byte offset
fillFloatVecFieldData_atRow(dataPath, fieldData, i, offset, outcome) ==
    LET dim == fieldData.Dim
        rowBytes == dim * 4
        read == [dataPath |-> dataPath, off |-> offset, length |-> rowBytes]
        content == ReadAt(dataPath, offset, rowBytes, outcome)
    IN  IF outcome = "fetchErr"
        THEN [err |-> ErrFetch, fieldData |-> fieldData, read |-> read]
        ELSE IF Len(content) < rowBytes
        THEN [err |-> ErrDecode, fieldData |-> fieldData, read |-> read]
        ELSE [err |-> NoErr, read |-> read,
              fieldData |-> [fieldData EXCEPT !.Data =
                  CopyTo(@, i * dim, (i + 1) * dim,
                         [j \in 1..dim |-> Float32LE(content, j)])]]

\* fillFloatVecFieldData: read dim*4 bytes at offset*dim*4, decode dim
\* floats, copy them to Data[i*dim:(i+1)*dim]
fillFloatVecFieldData(dataPath, fieldData, i, offset, outcome) ==
    LET dim == fieldData.Dim
        rowBytes == dim * 4
        read == [dataPath |-> dataPath, off |-> offset * rowBytes, length |-> rowBytes]
        content == ReadAt(dataPath, offset * rowBytes, rowBytes, outcome)
    IN  IF outcome = "fetchErr"
        THEN [err |-> ErrFetch, fieldData |-> fieldData, read |-> read]
        ELSE IF Len(content) < rowBytes
        THEN [err |-> ErrDecode, fieldData |-> fieldData, read |-> read]
        ELSE [err |-> NoErr, read |-> read,
              fieldData |-> [fieldData EXCEPT !.Data =
                  CopyTo(@, i * dim, (i + 1) * dim,
                         [j \in 1..dim |-> Float32LE(content, j)])]]

\* fillBinVecFieldData: read dim/8 bytes at offset*(dim/8), copy what was
\* read to BinaryVector[i*(dim/8):(i+1)*(dim/8)]
fillBinVecFieldData(dataPath, fieldData, i, offset, outcome) ==
    LET dim == fieldData.Dim
        rowBytes == dim \div 8
        read == [dataPath |-> dataPath, off |-> offset * rowBytes, length |-> rowBytes]
        content == ReadAt(dataPath, offset * rowBytes, rowBytes, outcome)
        resultLen == dim \div 8
    IN  IF outcome = "fetchErr"
        THEN [err |-> ErrFetch, fieldData |-> fieldData, read |-> read]
        ELSE [err |-> NoErr, read |-> read,
              fieldData |-> [fieldData EXCEPT !.Data =
                  CopyTo(@, i * resultLen, (i + 1) * resultLen, content)]]

\* fillFieldData: the fill function of the field's type (of the vector types,
\* the only ones fillIndexedFieldsData hands it)
fillFieldData(dataPath, fieldData, i, offset, outcome) ==
    CASE fieldData.Type = "BinaryVector" ->
             fillBinVecFieldData(dataPath, fieldData, i, offset, outcome)
      [] fieldData.Type = "FloatVector" ->
             fillFloatVecFieldData(dataPath, fieldData, i, offset, outcome)
      [] OTHER ->
             [err |-> ErrInvalidDataType, fieldData |-> fieldData, read |-> <<>>]

IsVectorType(Type) == Type \in {"BinaryVector", "FloatVector"}

\* the fields fillIndexedFieldsData does not skip: vector fields with a
\* loaded index that holds no raw data
NeedsRemote(fieldData) ==
    /\ IsVectorType(fieldData.Type)
    /\ fieldData.EnableIndex
    /\ ~(healthy /\ fieldData.HasRawData)

\* a field of a retrieve result, its data not yet hydrated
FieldData(Type, Dim, EnableIndex, HasRawData) ==
    [Type |-> Type, Dim |-> Dim, EnableIndex |-> EnableIndex,
     HasRawData |-> HasRawData, Data |-> <<>>]

FillFields ==
    {FieldData("FloatVector", 128, TRUE, FALSE),
     FieldData("FloatVector", 2, TRUE, FALSE),
     FieldData("BinaryVector", 16, TRUE, FALSE),
     FieldData("BinaryVector", 12, TRUE, FALSE),
     FieldData("Int64", 1, FALSE, FALSE),
     FieldData("FloatVector", 2, TRUE, TRUE),
     FieldData("FloatVector", 2, FALSE, FALSE)}

FillOffsets == {0, 1, 7}

\* the slots the engine allocated to a field for n rows
Allocated(fieldData, n) ==
    LET len == CASE fieldData.Type = "FloatVector" -> n * fieldData.Dim
                 [] fieldData.Type = "BinaryVector" -> n * (fieldData.Dim \div 8)
                 [] OTHER -> n
    IN  [fieldData EXCEPT !.Data = [k \in 1..len |-> Unfilled(fieldData.Type)]]

\* fillIndexedFieldsData is called with a retrieve result of one or two fields
fillIndexedFieldsData ==
    /\ fill.phase = "idle"
    /\ \E fields \in SeqsUpTo(FillFields, 2), offsets \in SeqsUpTo(FillOffsets, MaxRows) :
        /\ Len(fields) > 0 /\ Len(offsets) > 0
        /\ fill' = [phase |-> "loop",
                    FieldsData |-> [k \in 1..Len(fields) |-> Allocated(fields[k], Len(offsets))],
                    Offset |-> offsets, f |-> 1, i |-> 0, reads |-> <<>>, err |-> NoErr]

\* continue: the field is skipped, or its last row has been filled
fillIndexedFieldsDataContinue ==
    /\ fill.phase = "loop"
    /\ fill.f <= Len(fill.FieldsData)
    /\ ~NeedsRemote(fill.FieldsData[fill.f]) \/ fill.i = Len(fill.Offset)
    /\ fill' = [fill EXCEPT !.f = @ + 1, !.i = 0]

\* one pass of the inner loop: fillFieldData for row i of the field, in
\* place; its error ends the call
fillIndexedFieldsDataRow ==
    /\ fill.phase = "loop"
    /\ fill.f <= Len(fill.FieldsData)
    /\ NeedsRemote(fill.FieldsData[fill.f])
    /\ fill.i < Len(fill.Offset)
    /\ \E outcome \in ReadOutcomes :
        LET p == getFieldDataPath(Binlogs, fill.Offset[fill.i + 1])
            r == fillFieldData(p.dataPath, fill.FieldsData[fill.f], fill.i,
                               p.offsetInBinlog, outcome)
        IN  fill' = [fill EXCEPT !.FieldsData[fill.f] = r.fieldData,
                                 !.reads = Append(@, r.read),
                                 !.i = IF r.err = NoErr THEN @ + 1 ELSE @,
                                 !.phase = IF r.err = NoErr THEN "loop" ELSE "done",
                                 !.err = r.err]

\* every field is done: return nil
fillIndexedFieldsDataReturn ==
    /\ fill.phase = "loop"
    /\ fill.f > Len(fill.FieldsData)
    /\ fill' = [fill EXCEPT !.phase = "done"]

NextFill ==
    /\ \/ fillIndexedFieldsData
       \/ fillIndexedFieldsDataContinue
       \/ fillIndexedFieldsDataRow
       \/ fillIndexedFieldsDataReturn
    /\ UNCHANGED <<segVars, statVars, lockVars, bufVars, flushedDeletedTimestamp,
                   engVars, pc, op, loc, ret, trial, pool, indexedFieldInfos, located>>

SpecFill == Init /\ [][NextFill]_vars

\* ------------------------------------------------------ dispatch pools
\* the native calls of segment.go and the pool each is submitted to:
\* GetSQPool() for C.Search and C.Retrieve, GetDynamicPool() for the others
PoolCalls == {"C.Search", "C.Retrieve", "C.Delete", "C.Insert", "C.DeleteSegment"}
PoolOf(call) == IF call \in {"C.Search", "C.Retrieve"} THEN "SQPool" ELSE "DynamicPool"

\* a caller that runs the native call itself, not as a unit of work of the pool
Submit_inline(g, call) ==
    /\ pool.awaiting[g] = "none"
    /\ pool' = [pool EXCEPT !.running[PoolOf(call)] = @ \cup {g},
                            !.awaiting[g] = call]

\* Submit(func): the unit of work joins the queue of the pool; the caller goes
\* on to Await
Submit(g, call) ==
    /\ pool.awaiting[g] = "none"
    /\ pool' = [pool EXCEPT !.queue[PoolOf(call)] = Append(@, g),
                            !.awaiting[g] = call]

\* a free worker of the pool takes the unit at the head of the queue and
\* starts the native call
PoolStart(p) ==
    /\ Len(pool.queue[p]) > 0
    /\ Cardinality(pool.running[p]) < PoolWorkers
    /\ pool' = [pool EXCEPT !.queue[p] = Tail(@),
                            !.running[p] = @ \cup {Head(pool.queue[p])}]

\* the native call returns: the worker is free, the future is complete
PoolFinish(p, g) ==
    /\ g \in pool.running[p]
    /\ pool' = [pool EXCEPT !.running[p] = @ \ {g},
                            !.done = @ \cup {g}]

\* Await(): the caller goes on when its unit of work has completed
Await(g) ==
    /\ g \in pool.done
    /\ pool' = [pool EXCEPT !.done = @ \ {g}, !.awaiting[g] = "none"]

NextPool ==
    /\ \/ \E g \in Callers, call \in PoolCalls : Submit(g, call)
       \/ \E p \in Pools : PoolStart(p)
       \/ \E p \in Pools, g \in Callers : PoolFinish(p, g)
       \/ \E g \in Callers : Await(g)
    /\ UNCHANGED <<segVars, statVars, lockVars, bufVars, flushedDeletedTimestamp,
                   engVars, pc, op, loc, ret, trial, fill, indexedFieldInfos, located>>

SpecPool == Init /\ [][NextPool]_vars

\* ------------------------------------------------- indexed field infos
\* ConcurrentMap.InsertIfNotPresent: the entry is stored when the key has none
InsertIfNotPresent(infos, fieldID, info) ==
    IF infos[fieldID] = <<>> THEN [infos EXCEPT ![fieldID] = <<info>>] ELSE infos

\* a setIndexedFieldInfo that replaces the entry of the field
setIndexedFieldInfo_overwrites(t, fieldID, info) ==
    /\ pc[t] = "idle"
    /\ indexedFieldInfos' = [indexedFieldInfos EXCEPT ![fieldID] = <<info>>]
    /\ ReturnAtOnce(t, "setIndexedFieldInfo", NoErr, 0)
    /\ UNCHANGED <<segVars, statVars, lockVars, bufVars, flushedDeletedTimestamp,
                   engVars, trial, fill, pool, located>>

setIndexedFieldInfo(t, fieldID, info) ==
    /\ pc[t] = "idle"
    /\ indexedFieldInfos' = InsertIfNotPresent(indexedFieldInfos, fieldID, info)
    /\ ReturnAtOnce(t, "setIndexedFieldInfo", NoErr, 0)
    /\ UNCHANGED <<segVars, statVars, lockVars, bufVars, flushedDeletedTimestamp,
                   engVars, trial, fill, pool, located>>

\* getIndexedFieldInfo: a copy of the entry of the field, or an error
getIndexedFieldInfo(t, fieldID) ==
    /\ pc[t] = "idle"
    /\ IF indexedFieldInfos[fieldID] = <<>>
       THEN ReturnAtOnce(t, "getIndexedFieldInfo", ErrInvalidFieldID, <<>>)
       ELSE ReturnAtOnce(t, "getIndexedFieldInfo", NoErr,
                         <<[fieldBinlog |-> indexedFieldInfos[fieldID][1].fieldBinlog,
                            indexInfo |-> indexedFieldInfos[fieldID][1].indexInfo]>>)
    /\ UNCHANGED <<segVars, statVars, lockVars, bufVars, flushedDeletedTimestamp,
                   engVars, trial, fill, pool, indexedFieldInfos, located>>

\* hasLoadIndexForIndexedField: the field has an entry with an enabled index
hasLoadIndexForIndexedField(t, fieldID) ==
    /\ pc[t] = "idle"
    /\ LET fieldInfo == indexedFieldInfos[fieldID]
       IN  ReturnAtOnce(t, "hasLoadIndexForIndexedField", NoErr,
                        IF fieldInfo = <<>> THEN <<FALSE>>
                        ELSE <<fieldInfo[1].indexInfo # <<>> /\ fieldInfo[1].indexInfo[1].EnableIndex>>)
    /\ UNCHANGED <<segVars, statVars, lockVars, bufVars, flushedDeletedTimestamp,
                   engVars, trial, fill, pool, indexedFieldInfos, located>>

NextInfo ==
    \E t \in Threads, fieldID \in FieldIDs :
        \/ \E info \in IndexedFieldInfos : setIndexedFieldInfo(t, fieldID, info)
        \/ getIndexedFieldInfo(t, fieldID)
        \/ hasLoadIndexForIndexedField(t, fieldID)

SpecInfo == Init /\ [][NextInfo]_vars

\* ------------------------------------------------ claims on the buffer
\* the native calls made under the read lock
ReadLockedCalls ==
    StatCalls \cup StatusCalls \cup {"C.Delete", "C.Insert", "C.LoadDeletedRecord",
                                     "C.PreInsert"}

\* C1: once deleteSegment has marked the segment unhealthy, no operation
\* issues a native call on the segment's handle
C1_NoLateCall == lateCalls = {}

\* C2: while the engine call of a read-locked operation is in flight the
\* segment is healthy and attached and no native destroy runs or has run; no
\* read-locked operation has issued an engine call on a destroyed segment
C2_DestroyExclusive ==
    /\ \A t \in Threads :
        pc[t] \in ReadLockedCalls =>
            /\ t \in mutReaders
            /\ ~destroyed
            /\ segmentPtr = Ptr
            /\ nativeReleased = 0
            /\ \A u \in Threads : pc[u] # "C.DeleteSegment"
    /\ lateCalls \cap ReadLockedCalls = {}

\* a destroy waits for the lock while a read-locked engine call is in flight
C2_Witness ==
    \E t, u \in Threads :
        /\ pc[t] = "Lock"
        /\ pc[u] \in ReadLockedCalls
        /\ u \in mutReaders

C3Ops == {"search", "retrieve", "segmentPreInsert", "segmentInsert", "segmentDelete",
          "FlushDelete", "LoadFieldData", "LoadMultiFieldData",
          "segmentLoadDeletedRecord", "segmentLoadIndexData"}

EarlyExit(r) ==
    \/ r.name = "segmentPreInsert" /\ segmentType # segmentTypeGrowing
                                   /\ r.err = NoErr /\ r.val = 0
    \/ r.name = "segmentInsert" /\ segmentType # segmentTypeGrowing /\ r.err = ErrIllegalType
    \/ r.name = "segmentDelete" /\ r.err \in {ErrEmptyPks, ErrLenMismatch}
    \/ r.name \in {"segmentDelete", "segmentLoadDeletedRecord"} /\ ~flushed /\ r.err = NoErr
    \/ r.name = "segmentLoadDeletedRecord" /\ ~flushed /\ r.err = Panic
    \/ r.name = "FlushDelete" /\ records = <<>> /\ r.err = NoErr
    \/ r.name = "segmentLoadIndexData" /\ r.err = ErrLoadInfo
    \/ r.name = "segmentLoadIndexData" /\ segmentType # segmentTypeSealed
                                       /\ r.err = ErrIllegalType

IsValidBatch(b) == Len(b.pks) > 0 /\ Len(b.pks) = Len(b.tss)

BatchRecords(b) == [i \in 1..Len(b.pks) |-> [pk |-> b.pks[i], timestamp |-> b.tss[i]]]

Occurrences(recs, r) == Cardinality({i \in 1..Len(recs) : recs[i] = r})

IsPermutationOf(a, b) ==
    /\ Len(a) = Len(b)
    /\ \A i \in 1..Len(a) : Occurrences(a, a[i]) = Occurrences(b, a[i])

\* the batches a step of segmentDelete can have been given: the arguments
\* it goes on with, or a tail of the records the step leaves
StepBatches(t) ==
    {[pks |-> op'[t].pks, tss |-> op'[t].tss]} \cup
    {[pks |-> Keys(SubSeq(records', k, Len(records'))),
      tss |-> Stamps(SubSeq(records', k, Len(records')))] : k \in 1..Len(records') + 1}

\* C4: while the buffer is unflushed TryAppend returns true and appends every
\* given pair (segmentDelete then returns nil at once); once the buffer is
\* flushed it stays flushed and empty, and TryAppend returns false for every
\* input (segmentDelete then goes on to deleteImpl)
C4_TryAppendContract ==
    [][/\ flushed => flushed' /\ records' = <<>>
       /\ \A t \in Threads : \A b \in StepBatches(t) :
            (IsValidBatch(b) /\ segmentDelete(t, b.pks, b.tss)) =>
                IF flushed
                THEN pc'[t] = "deleteImpl" /\ records' = <<>>
                ELSE /\ records' = records \o BatchRecords(b)
                     /\ pc'[t] = "idle"
                     /\ ret'[t].name = "segmentDelete"
                     /\ ret'[t].err = NoErr]_vars

\* a TryAppend that returned false after a Flush that had records to apply
C4_Witness ==
    \E t \in Threads :
        /\ flushed
        /\ flushedDeletedTimestamp > 0
        /\ pc[t] = "deleteImpl"
        /\ op[t].name = "segmentDelete"

\* C5: Flush hands its handler every buffered record, once; when the handler
\* succeeds the buffer is cleared and flushed; when it fails Flush returns the
\* error, the buffer stays unflushed and keeps the same records, which the
\* next Flush hands over again
C5_FlushContract ==
    [][\A t \in Threads :
        /\ (FlushDelete(t) /\ Len(records) > 0) =>
                /\ IsPermutationOf(records', records)
                /\ op'[t].pks = Keys(records')
                /\ op'[t].tss = Stamps(records')
                /\ pc'[t] = "deleteImpl"
                /\ bufMut' = t
        /\ (FlushDelete(t) /\ Len(records) = 0) =>
                /\ ret'[t].err = NoErr
                /\ flushed'
        /\ (op[t].name = "FlushDelete" /\ pc[t] = "C.Delete") => pc'[t] # "deleteImpl"
        /\ (op[t].name = "FlushDelete" /\ bufMut' = t) => records' = records
        /\ (op[t].name = "FlushDelete" /\ pc'[t] = "idle") =>
                /\ bufMut' = NoThread
                /\ ret'[t].name = "FlushDelete"
                /\ IF ret'[t].err = NoErr
                   THEN records' = <<>> /\ flushed'
                   ELSE records' = records /\ ~flushed']_vars

\* a Flush whose handler failed in the engine: the records are still buffered
C5_Witness ==
    \E t \in Threads :
        /\ ret[t].name = "FlushDelete"
        /\ ret[t].err = ErrNative
        /\ Len(records) = MaxRecords
        /\ ~flushed

RECURSIVE InsertStable(_, _)
InsertStable(s, r) ==
    IF s = <<>> THEN <<r>>
    ELSE IF Less(r, Head(s)) THEN <<r>> \o s
    ELSE <<Head(s)>> \o InsertStable(Tail(s), r)

RECURSIVE StableSort(_)
StableSort(recs) ==
    IF recs = <<>> THEN <<>>
    ELSE InsertStable(StableSort(SubSeq(recs, 1, Len(recs) - 1)), recs[Len(recs)])

\* C6 as claimed: the batch Flush hands its handler is the stable sort of the
\* buffer by timestamp
C6_StableSorted ==
    [][\A t \in Threads :
        (FlushDelete(t) /\ Len(records) > 0) =>
            /\ records' = StableSort(records)
            /\ op'[t].pks = Keys(records')
            /\ op'[t].tss = Stamps(records')]_vars

\* C6 as amended: the batch Flush hands its handler is a permutation of the
\* buffer in ascending order of timestamp
C6_SortedPermutation ==
    [][\A t \in Threads :
        (FlushDelete(t) /\ Len(records) > 0) =>
            /\ IsPermutationOf(records', records)
            /\ IsSortedBy(records')
            /\ op'[t].pks = Keys(records')
            /\ op'[t].tss = Stamps(records')]_vars

\* a Flush that had to reorder the buffer and was handed equal timestamps
C6_Witness ==
    \E t \in Threads :
        /\ op[t].name = "FlushDelete"
        /\ pc[t] = "deleteImpl"
        /\ Len(op[t].tss) = MaxRecords
        /\ \E i, j \in 1..Len(op[t].tss) :
            i < j /\ op[t].tss[i] = op[t].tss[j] /\ op[t].pks[i] # op[t].pks[j]

IsNonDecreasing(tss) == \A i \in 1..Len(tss) - 1 : tss[i] <= tss[i + 1]

\* deleteImpl is entered with a sorted batch that ends at or before the watermark
AlreadyApplied(t) ==
    /\ Len(op[t].tss) > 0
    /\ IsNonDecreasing(op[t].tss)
    /\ \A i \in 1..Len(op[t].tss) : op[t].tss[i] <= flushedDeletedTimestamp

\* deleteImpl returns err without a C.Delete call and changes neither the
\* watermark nor the engine
ReturnsUntouched(t, err) ==
    /\ pc'[t] = "idle"
    /\ ret'[t].err = err
    /\ ~ret'[t].called
    /\ flushedDeletedTimestamp' = flushedDeletedTimestamp
    /\ engDeleted' = engDeleted
    /\ engLastTs' = engLastTs

\* C7 as claimed: deleteImpl on a sorted batch that ends at or before the
\* watermark returns success without an engine call and changes nothing
C7_NoOpSuccess ==
    [][\A t \in Threads :
        (deleteImplEnter(t) /\ AlreadyApplied(t)) => ReturnsUntouched(t, NoErr)]_vars

\* C7 as amended: on a healthy segment it returns success, on a destroyed one
\* the unhealthy error; in both cases without an engine call or any change
C7_NoOpWhenHealthy ==
    [][\A t \in Threads :
        (deleteImplEnter(t) /\ AlreadyApplied(t)) =>
            ReturnsUntouched(t, IF healthy THEN NoErr ELSE ErrSegmentUnhealthy)]_vars

\* a direct delete at or before a watermark that a Flush has raised returned
\* success without an engine call
C7_Witness ==
    \E t \in Threads :
        /\ flushed
        /\ healthy
        /\ flushedDeletedTimestamp = MaxTs
        /\ pc[t] = "idle"
        /\ ret[t].name = "segmentDelete"
        /\ ret[t].err = NoErr
        /\ ~ret[t].called

\* C8 as claimed: the timestamps handed to C.Delete never decrease, within a
\* call and from one call to the next
C8_NonDecreasing ==
    [][\A t \in Threads :
        (pc[t] = "deleteImpl" /\ pc'[t] = "C.Delete") =>
            /\ IsNonDecreasing(loc'[t].tss)
            /\ engLastTs # <<>> => engLastTs[1] <= loc'[t].tss[1]]_vars

\* C9 as claimed: a batch applied directly and the same batch applied through
\* the buffer end with the same watermark and the same keys deleted in the engine
C9_SamePaths ==
    (trial.phase = "done" /\ trial.direct[1].err = NoErr /\ ret["t1"].err = NoErr) =>
        /\ flushedDeletedTimestamp = trial.direct[1].watermark
        /\ engDeleted = trial.direct[1].deleted
\* a generation that pk has been added to is there
Present(pk) ==
    \/ currentStat # <<>> /\ pk \in currentStat[1].keys
    \/ \E i \in DOMAIN historyStats : pk \in historyStats[i].keys

\* C10: isPKExist returns true for a key that updateBloomFilter has added to
\* the current generation or that a historical generation contains, and true
\* while lazy loading
C10_NoFalseNegative ==
    [][\A t \in Threads :
        /\ (pc[t] = "isPKExist" /\ pc'[t] = "idle" /\ Present(op[t].pks[1])) =>
               (ret'[t].err = NoErr /\ ret'[t].val = 1)
        /\ (pc[t] = "idle" /\ ret'[t].name = "isPKExist") =>
               (lazyLoading /\ ret'[t].err = NoErr /\ ret'[t].val = 1)]_vars

\* isPKExist, not lazy loading, has found a key of a historical generation
\* that the current generation does not have
C10_Witness ==
    \E t \in Threads :
        /\ ret[t].name = "isPKExist"
        /\ ret[t].pks # <<>>
        /\ ret[t].val = 1
        /\ currentStat # <<>>
        /\ ret[t].pks[1] \notin currentStat[1].keys
        /\ \E i \in DOMAIN historyStats : ret[t].pks[1] \in historyStats[i].keys

\* isPKExist has answered true for a key no generation has: a false positive
C10_FalsePositive ==
    \E t \in Threads :
        /\ ret[t].name = "isPKExist"
        /\ ret[t].pks # <<>>
        /\ ret[t].val = 1
        /\ ~statRaced
        /\ ~Present(ret[t].pks[1])
        /\ currentStat # <<>>

\* a step of segmentDelete, of FlushDelete or of the deleteImpl they call
DeleteStep ==
    \E t \in Threads :
        /\ pc'[t] # pc[t] \/ ret'[t] # NoRet
        /\ \/ op[t].name \in {"segmentDelete", "FlushDelete"}
           \/ op'[t].name \in {"segmentDelete", "FlushDelete"}
           \/ ret'[t].name \in {"segmentDelete", "FlushDelete"}

\* C11: no step of segmentDelete or FlushDelete changes a generation of the
\* statistics, and isPKExist returns true for a key that updateBloomFilter has
\* added, also once the key is deleted in the engine
C11_DeletesKeepIndex ==
    [][/\ DeleteStep => UNCHANGED <<currentStat, historyStats>>
       /\ \A t \in Threads :
            (/\ pc[t] = "isPKExist"
             /\ pc'[t] = "idle"
             /\ currentStat # <<>>
             /\ op[t].pks[1] \in currentStat[1].keys
             /\ op[t].pks[1] \in engDeleted) =>
                (ret'[t].err = NoErr /\ ret'[t].val = 1)]_vars

\* isPKExist has returned true for a key that updateBloomFilter added and
\* that a flushed delete has since deleted in the engine
C11_Witness ==
    \E t \in Threads :
        /\ ret[t].name = "isPKExist"
        /\ ret[t].pks # <<>>
        /\ ret[t].val = 1
        /\ currentStat # <<>>
        /\ ret[t].pks[1] \in currentStat[1].keys
        /\ ret[t].pks[1] \in engDeleted
        /\ flushed

\* the native DeleteSegment calls issued on the handle: those that returned
\* and those in flight
DeleteSegmentCalls ==
    nativeReleased + Cardinality({t \in Threads : pc[t] = "C.DeleteSegment"})

\* C12: the native DeleteSegment call is issued on the handle at most once,
\* and once as soon as the segment is unhealthy, so once when a deleteSegment
\* call has returned
C12_DestroyedOnce ==
    /\ DeleteSegmentCalls <= 1
    /\ destroyed => DeleteSegmentCalls = 1
    /\ \A t \in Threads : ret[t].name = "deleteSegment" => DeleteSegmentCalls = 1

\* a second deleteSegment has returned, without a native call, after the
\* native call of the first
C12_Witness ==
    \E t \in Threads :
        /\ ret[t].name = "deleteSegment"
        /\ ~ret[t].called
        /\ nativeReleased = 1

\* C13: the segment is created healthy, and no step makes an unhealthy
\* segment healthy
C13_HealthyOneWay == healthy /\ [][destroyed => destroyed']_vars

\* an operation that was entered on the unhealthy segment has returned
C13_Witness ==
    \E t \in Threads :
        /\ destroyed
        /\ ret[t].sd
        /\ ret[t].name \notin {"none", "deleteSegment"}

\* C14: the type changes only from Growing to Sealed (so at most once)
C14_GrowingToSealedOnce ==
    [][segmentType' # segmentType =>
          (segmentType = segmentTypeGrowing /\ segmentType' = segmentTypeSealed)]_vars

\* the batches of DeleteBatches that are not well formed
MalformedBatches ==
    {[pks |-> <<>>, tss |-> <<>>]}
        \cup {[pks |-> <<k>>, tss |-> <<>>] : k \in Int64Keys}
        \cup {[pks |-> <<>>, tss |-> <<ts>>] : ts \in Timestamps}

\* C15: segmentDelete given no key, or keys and timestamps of two lengths,
\* returns its input error at once: nothing is appended to the buffer, no
\* engine call is made, the watermark and the engine are as before
C15_MalformedRejected ==
    [][\A t \in Threads :
        (pc[t] = "idle" /\ "segmentDelete" \in {ret'[t].name, op'[t].name}) =>
        \A b \in MalformedBatches :
        segmentDelete(t, b.pks, b.tss) =>
            /\ pc'[t] = "idle"
            /\ ret'[t].name = "segmentDelete"
            /\ ret'[t].err = IF Len(b.pks) = 0 THEN ErrEmptyPks ELSE ErrLenMismatch
            /\ ~ret'[t].called
            /\ UNCHANGED <<records, flushed, flushedDeletedTimestamp, engVars, lockVars>>]_vars

\* segmentDelete has returned the length error on a buffer that holds records
C15_Witness ==
    \E t \in Threads :
        /\ ret[t].name = "segmentDelete"
        /\ ret[t].err = ErrLenMismatch
        /\ records # <<>>
        /\ ~flushed

\* C16: segmentInsert issues C.Insert only on a segment that is Growing and
\* healthy as the call is issued, and returns an error without the call
\* otherwise; recentlyModified becomes true when C.Insert succeeds and is left
\* as it is by every other return of segmentInsert
C16_InsertGrowingHealthy ==
    [][\A t \in Threads :
        /\ (pc[t] = "Insert" /\ pc'[t] = "C.Insert") =>
               (segmentType = segmentTypeGrowing /\ healthy)
        /\ (pc[t] \in {"idle", "Insert"} /\ ret'[t].name = "segmentInsert") =>
               (ret'[t].err # NoErr /\ ~ret'[t].called /\ UNCHANGED recentlyModified)
        /\ (pc[t] = "C.Insert" /\ pc'[t] = "idle") =>
               recentlyModified' = IF ret'[t].err = NoErr THEN TRUE ELSE recentlyModified]_vars

\* C17 as stated, its last part: segmentPreInsert entered on an unhealthy
\* segment fails with an error
C17_UnhealthyFails ==
    \A t \in Threads :
        (ret[t].name = "segmentPreInsert" /\ ret[t].sd) => ret[t].err # NoErr

\* C17, amended: on a segment that is not Growing segmentPreInsert returns
\* (0, nil) at once, healthy or not; on a Growing one it takes the read lock
\* and returns the unhealthy error without a call if the segment is
\* unhealthy, else makes the C.PreInsert call and returns the offset the
\* engine reserved, or (0, error) for a non-zero status
C17_PreInsertContract ==
    [][\A t \in Threads :
        /\ segmentPreInsert(t) =>
               IF segmentType # segmentTypeGrowing
               THEN /\ pc'[t] = "idle"
                    /\ ret'[t].err = NoErr /\ ret'[t].val = 0 /\ ~ret'[t].called
               ELSE pc'[t] = "PreInsert" /\ ret'[t] = NoRet
        /\ segmentPreInsertLocked(t) =>
               IF destroyed
               THEN /\ pc'[t] = "idle"
                    /\ ret'[t].err = ErrSegmentUnhealthy /\ ~ret'[t].called
               ELSE pc'[t] = "C.PreInsert" /\ lateCalls' = lateCalls
        /\ (pc[t] = "HandleCStatus" /\ pc'[t] = "idle") =>
               /\ ret'[t].called
               /\ \/ ret'[t].err = NoErr /\ ret'[t].val = loc[t].tss[1]
                  \/ ret'[t].err = ErrNative /\ ret'[t].val = 0]_vars

\* segmentPreInsert has returned the offset the engine reserved
C17_Witness ==
    \E t \in Threads :
        /\ ret[t].name = "segmentPreInsert"
        /\ ret[t].called
        /\ ret[t].err = NoErr
        /\ ret[t].val = MaxOffset

\* C18: search on an unhealthy segment or with a nil plan returns an error
\* without an engine call (the unhealthy error first); with a healthy segment
\* and a plan it issues C.Search once, under the read lock, and returns the
\* result or the error of the native status
C18_SearchContract ==
    [][\A t \in Threads :
        /\ \A plan \in {Nil, "plan"} :
               (pc[t] = "idle" /\ (ret'[t].name = "search" \/ pc'[t] = "C.Search")
                    /\ search(t, plan)) =>
                   IF destroyed
                   THEN /\ pc'[t] = "idle"
                        /\ ret'[t].name = "search"
                        /\ ret'[t].err = ErrSegmentUnhealthy /\ ~ret'[t].called
                        /\ UNCHANGED engVars
                   ELSE IF plan = Nil
                   THEN /\ pc'[t] = "idle"
                        /\ ret'[t].name = "search"
                        /\ ret'[t].err = ErrNilPlan /\ ~ret'[t].called
                        /\ UNCHANGED engVars
                   ELSE /\ pc'[t] = "C.Search" /\ ret'[t] = NoRet
                        /\ t \in mutReaders'
        /\ (pc[t] = "C.Search" /\ pc'[t] # pc[t]) =>
               /\ pc'[t] = "idle"
               /\ ret'[t].name = "search" /\ ret'[t].called
               /\ ret'[t].err \in {NoErr, ErrNative}
               /\ t \notin mutReaders'
        /\ ret'[t].name = "search" => pc[t] \in {"idle", "C.Search"}]_vars

\* search has returned the nil-plan error, on a healthy segment
C18_Witness ==
    \E t \in Threads :
        /\ ret[t].name = "search"
        /\ ret[t].err = ErrNilPlan
        /\ ~ret[t].called
        /\ healthy

\* C19: hydrating row i of a float-vector field of dimension dim, at row o
\* of the owning binlog, is one read of dim*4 bytes at byte o*dim*4 of that
\* binlog, and on success slots [i*dim, (i+1)*dim) of the result hold the dim
\* floats of those bytes and no other slot changes; for a binary vector the
\* read is of dim/8 bytes at byte o*(dim/8)
C19_VectorRowBytes ==
    [][fillIndexedFieldsDataRow =>
        LET fieldData == fill.FieldsData[fill.f]
            dim == fieldData.Dim
            i == fill.i
            p == getFieldDataPath(Binlogs, fill.Offset[i + 1])
            o == p.offsetInBinlog
            x == fill'.FieldsData[fill.f].Data
        IN  /\ Len(fill'.reads) = Len(fill.reads) + 1
            /\ IF fieldData.Type = "FloatVector"
               THEN /\ fill'.reads[Len(fill'.reads)] =
                           [dataPath |-> p.dataPath, off |-> o * dim * 4, length |-> dim * 4]
                    /\ fill'.err = NoErr =>
                           \A k \in 1..Len(x) :
                               x[k] = IF k > i * dim /\ k <= (i + 1) * dim
                                      THEN LET b == o * dim * 4 + 4 * (k - i * dim - 1)
                                           IN  <<ByteAt(p.dataPath, b + 3), ByteAt(p.dataPath, b + 2),
                                                 ByteAt(p.dataPath, b + 1), ByteAt(p.dataPath, b)>>
                                      ELSE fieldData.Data[k]
               ELSE fill'.reads[Len(fill'.reads)] =
                        [dataPath |-> p.dataPath, off |-> o * (dim \div 8),
                         length |-> dim \div 8]]_vars

\* a row of a float vector of dimension 128 at row 5 of its binlog has been
\* hydrated: 512 bytes from byte 2560, 128 values in the result
C19_Witness ==
    /\ fill.phase = "done"
    /\ fill.err = NoErr
    /\ \E k \in 1..Len(fill.reads) : fill.reads[k].off = 2560 /\ fill.reads[k].length = 512
    /\ \E f \in 1..Len(fill.FieldsData) :
        /\ fill.FieldsData[f].Dim = 128
        /\ Len(fill.FieldsData[f].Data) = 128
        /\ \A k \in 1..128 : fill.FieldsData[f].Data[k] # <<>>

\* C20 as stated: when fillIndexedFieldsData has returned an error, no slot of
\* any field of the result has been filled
C20_NoPartialHydration ==
    (fill.phase = "done" /\ fill.err # NoErr) =>
        \A f \in 1..Len(fill.FieldsData) :
            \A k \in 1..Len(fill.FieldsData[f].Data) :
                fill.FieldsData[f].Data[k] = Unfilled(fill.FieldsData[f].Type)

\* C21: the native calls running at the same time in a pool never exceed its
\* worker count; a unit of work starts only when a worker is free, and until
\* then stays in the queue; its caller goes on only when it has completed
C21_BoundedEngineCalls ==
    /\ \A p \in Pools : Cardinality(pool.running[p]) <= PoolWorkers
    /\ Cardinality(UNION {pool.running[p] : p \in Pools}) <= 2 * PoolWorkers
    /\ \A g \in Callers :
        pool.awaiting[g] # "none" =>
            \/ g \in pool.done
            \/ g \in pool.running[PoolOf(pool.awaiting[g])]
            \/ \E k \in 1..Len(pool.queue[PoolOf(pool.awaiting[g])]) :
                   pool.queue[PoolOf(pool.awaiting[g])][k] = g

\* every worker of the dynamic pool is busy and a later submission waits in
\* the queue
C21_Witness ==
    /\ Cardinality(pool.running["DynamicPool"]) = PoolWorkers
    /\ Len(pool.queue["DynamicPool"]) > 0

\* C22 as stated: no step writes currentStat or historyStats while a thread
\* other than the writer holds the stats lock
C22_StatsWrittenUnderLock ==
    [][(currentStat' # currentStat \/ historyStats' # historyStats) =>
           \/ statLock = NoThread
           \/ pc'[statLock] # pc[statLock]]_vars

\* the records of a batch whose timestamp is past the watermark, in their order
RECURSIVE PastWatermark(_, _, _)
PastWatermark(pks, tss, watermark) ==
    IF Len(tss) = 0 THEN NoBatch
    ELSE LET rest == PastWatermark(Tail(pks), Tail(tss), watermark)
         IN  IF Head(tss) > watermark
             THEN [pks |-> <<Head(pks)>> \o rest.pks, tss |-> <<Head(tss)>> \o rest.tss]
             ELSE rest

\* deleteImpl takes its first step on a healthy segment, with a sorted batch
SortedOnHealthy(t) ==
    /\ deleteImplEnter(t)
    /\ healthy
    /\ IsNonDecreasing(op[t].tss)

C24_WatermarkIsLastApplied ==
    [][\A t \in Threads :
        (/\ pc[t] = "C.Delete"
         /\ ret'[t].name \in {"segmentDelete", "FlushDelete"}
         /\ ret'[t].err = NoErr) =>
            flushedDeletedTimestamp' = loc[t].tss[Len(loc[t].tss)]]_vars

DeleteCalls == {"segmentDelete", "segmentLoadDeletedRecord", "FlushDelete"}

\* C25: no step of segmentDelete, segmentLoadDeletedRecord or FlushDelete
\* decreases the watermark, and a call that returns an error (or panics)
\* leaves it as it was
C25_WatermarkMonotonic ==
    [][/\ flushedDeletedTimestamp' >= flushedDeletedTimestamp
       /\ \A t \in Threads :
            (ret'[t].name \in DeleteCalls /\ ret'[t].err # NoErr) =>
                flushedDeletedTimestamp' = flushedDeletedTimestamp]_vars

\* a call has failed after a Flush had raised the watermark
C25_Witness ==
    \E t \in Threads :
        /\ flushedDeletedTimestamp = MaxTs
        /\ ret[t].name \in DeleteCalls
        /\ ret[t].err = ErrNative

\* C26: while lazyLoading is true every isPKExist returns true in its first
\* step, whatever the key and the generations, and leaves the stats lock alone
C26_LazyLoadingAnswersTrue ==
    [][\A t \in Threads :
        (/\ lazyLoading
         /\ pc[t] = "idle"
         /\ ret'[t].name = "isPKExist" \/ pc'[t] = "isPKExist") =>
            /\ pc'[t] = "idle"
            /\ ret'[t].name = "isPKExist"
            /\ ret'[t].val = 1
            /\ ret'[t].err = NoErr
            /\ statLock' = statLock]_vars

\* isPKExist has answered true during lazy loading, for a key that no
\* generation holds, while another thread held the stats lock
C26_Witness ==
    \E t \in Threads :
        /\ lazyLoading
        /\ ret[t].name = "isPKExist"
        /\ ret[t].val = 1
        /\ currentStat = <<>> /\ historyStats = <<>>
        /\ statLock \in Threads \ {t}

\* what deleteSegment leaves of a segment
Discarded ==
    /\ destroyed
    /\ segmentPtr = Nil
    /\ nativeReleased = 1
    /\ currentStat = <<>>
    /\ historyStats = <<>>

\* C27 as stated: the step that completes deleteSegment leaves the segment
\* unhealthy, detached, released and without stats generations, and every
\* later step of a method of the segment leaves it so
C27_DiscardedForGood ==
    [][\A t \in Threads :
        (pc'[t] # pc[t] \/ ret'[t] # NoRet) =>
            /\ (nativeReleased = 0 /\ nativeReleased' > 0) => Discarded'
            /\ (nativeReleased > 0 /\ Discarded) => Discarded']_vars

\* C28: setIndexedFieldInfo stores the info of a field that has none and
\* leaves every stored entry as it is; no step changes a stored entry;
\* getIndexedFieldInfo returns the stored (so the first) entry of the field,
\* or an error for a field that was never set
C28_InsertOnce ==
    [][/\ \A fieldID \in FieldIDs :
            indexedFieldInfos[fieldID] # <<>> =>
                indexedFieldInfos'[fieldID] = indexedFieldInfos[fieldID]
       /\ \A t \in Threads, fieldID \in FieldIDs :
            /\ \A info \in IndexedFieldInfos :
                (setIndexedFieldInfo(t, fieldID, info) /\ indexedFieldInfos[fieldID] = <<>>) =>
                    /\ indexedFieldInfos'[fieldID] = <<info>>
                    /\ \A other \in FieldIDs \ {fieldID} :
                           indexedFieldInfos'[other] = indexedFieldInfos[other]
            /\ getIndexedFieldInfo(t, fieldID) =>
                    IF indexedFieldInfos[fieldID] = <<>>
                    THEN ret'[t].err = ErrInvalidFieldID
                    ELSE ret'[t].err = NoErr /\ ret'[t].val = indexedFieldInfos[fieldID]]_vars

\* every field has an entry and getIndexedFieldInfo has returned one
C28_Witness ==
    /\ \A fieldID \in FieldIDs : indexedFieldInfos[fieldID] # <<>>
    /\ \E t \in Threads : ret[t].name = "getIndexedFieldInfo" /\ ret[t].err = NoErr

\* the rows of the first j binlogs
RECURSIVE EntriesBefore(_, _)
EntriesBefore(binlogs, j) ==
    IF j = 0 THEN 0 ELSE EntriesBefore(binlogs, j - 1) + binlogs[j].EntriesNum

\* C29: for a row offset o below the total number of rows, getFieldDataPath
\* returns the path of the binlog j whose rows are n1+..+n(j-1) up to
\* n1+..+nj - 1 with o among them, and the offset o - (n1+..+n(j-1)) in it,
\* which is in [0, nj)
C29_OwningBinlog ==
    (/\ located.result # <<>>
     /\ located.offset < EntriesBefore(located.binlogs, Len(located.binlogs))) =>
        \E j \in 1..Len(located.binlogs) :
            /\ EntriesBefore(located.binlogs, j - 1) <= located.offset
            /\ located.offset < EntriesBefore(located.binlogs, j)
            /\ located.result[1].dataPath = located.binlogs[j].LogPath
            /\ located.result[1].offsetInBinlog =
                   located.offset - EntriesBefore(located.binlogs, j - 1)
            /\ located.result[1].offsetInBinlog >= 0
            /\ located.result[1].offsetInBinlog < located.binlogs[j].EntriesNum

\* a row of the last of several binlogs, the first of them empty, was located
C29_Witness ==
    /\ located.result # <<>>
    /\ Len(located.binlogs) = MaxBinlogs
    /\ located.binlogs[1].EntriesNum = 0
    /\ located.offset = MaxEntries - 1
    /\ located.result[1].dataPath = located.binlogs[MaxBinlogs].LogPath
    /\ located.result[1].offsetInBinlog = MaxEntries - 1

\* C30 as stated: segmentLoadDeletedRecord given no key, or keys and
\* timestamps of two lengths, returns an error and does not panic, appends
\* nothing to the buffer and makes no engine call
C30_LoadMalformedRejected ==
    [][\A t \in Threads :
        /\ (pc[t] = "idle" /\ "segmentLoadDeletedRecord" \in {ret'[t].name, op'[t].name}) =>
            \A b \in MalformedBatches :
                segmentLoadDeletedRecord(t, b.pks, b.tss) =>
                    /\ records' = records
                    /\ pc'[t] = "idle" => ret'[t].err \notin {NoErr, Panic}
        /\ (/\ pc[t] = "LoadDeletedRecord"
            /\ [pks |-> op[t].pks, tss |-> op[t].tss] \in MalformedBatches
            /\ pc'[t] # pc[t]) =>
                /\ pc'[t] = "idle"
                /\ ret'[t].err \notin {NoErr, Panic}
                /\ ~ret'[t].called]_vars

C32_EveryOperationReturns ==
    \A t \in Threads :
        /\ (pc[t] # "idle") ~> (pc[t] = "idle")
        /\ (pc[t] = "Lock") ~> (mutWriter = t)
        /\ (pc[t] = "Lock") ~>
                (ret[t].name = "deleteSegment" /\ destroyed /\ segmentPtr = Nil)

\* a FlushDelete holds the buffer's mutex and waits for the read lock, which
\* a deleteSegment that waits for the write lock keeps from it
C32_Witness ==
    \E t, u \in Threads :
        /\ bufMut = t
        /\ pc[t] = "deleteImpl"
        /\ op[t].name = "FlushDelete"
        /\ pc[u] = "Lock"
        /\ u \in mutPending
        /\ ~CanRLock

\* C33: once a FlushDelete has succeeded, every later FlushDelete returns nil,
\* makes no engine call and leaves the watermark, the flushed flag and the
\* empty buffer as they are, on a destroyed segment too
C33_FlushIdempotent ==
    [][\A t \in Threads :
        (flushed /\ pc[t] = "idle" /\ "FlushDelete" \in {ret'[t].name, op'[t].name}) =>
            /\ records = <<>>
            /\ pc'[t] = "idle"
            /\ ret'[t].name = "FlushDelete"
            /\ ret'[t].err = NoErr
            /\ ~ret'[t].called
            /\ UNCHANGED <<records, flushed, flushedDeletedTimestamp, bufMut,
                           engVars, lockVars>>]_vars

\* a FlushDelete has just returned without an engine call, after the Flush
\* that applied the buffered records and set the watermark
C33_Witness ==
    \E t \in Threads :
        /\ flushed
        /\ flushedDeletedTimestamp > 0
        /\ engDeleted # {}
        /\ ret[t].name = "FlushDelete"
        /\ ret[t].err = NoErr
        /\ ~ret[t].called

\* the stat getters and hasRawData: the engine call of each, and what each
\* returns for an unhealthy segment (false is written 0)
StatCallOf ==
    [hasRawData |-> "C.HasRawData", getRealCount |-> "C.GetRealCount",
     getRowCount |-> "C.GetRowCount", getDeletedCount |-> "C.GetDeletedCount",
     getMemSize |-> "C.GetMemoryUsageInBytes"]

UnhealthyValueOf(name) == IF name = "hasRawData" THEN 0 ELSE -1

\* C34: on an unhealthy segment getRealCount, getRowCount, getDeletedCount and
\* getMemSize return -1 and hasRawData returns false, without an engine call;
\* on a healthy segment each makes its one engine call, holds the read lock
\* from before the call until the call has returned, and then returns
C34_StatGetters ==
    [][\A t \in Threads :
        /\ (/\ pc[t] = "idle"
            /\ \/ ret'[t].name \in DOMAIN StatCallOf
               \/ pc'[t] \in StatCalls) =>
                IF ~healthy
                THEN /\ pc'[t] = "idle"
                     /\ ret'[t].val = UnhealthyValueOf(ret'[t].name)
                     /\ ~ret'[t].called
                     /\ UNCHANGED <<engVars, lockVars>>
                ELSE /\ pc'[t] = StatCallOf[op'[t].name]
                     /\ mutReaders' = mutReaders \cup {t}
                     /\ mutWriter = NoThread
                     /\ UNCHANGED <<nativeReleased, engDeleted, engLastTs, lateCalls>>
        /\ (pc[t] \in StatCalls) =>
                /\ t \in mutReaders
                /\ healthy
                /\ segmentPtr = Ptr
                /\ pc[t] = StatCallOf[op[t].name]
                /\ (pc'[t] # pc[t]) =>
                        /\ pc'[t] = "idle"
                        /\ ret'[t].name = op[t].name
                        /\ ret'[t].called
                        /\ mutReaders' = mutReaders \ {t}]_vars

\* a stat getter has just returned -1 on a destroyed segment, without a call
C34_Witness ==
    \E t \in Threads :
        /\ destroyed
        /\ ret[t].name \in {"getRealCount", "getRowCount", "getDeletedCount", "getMemSize"}
        /\ ret[t].val = -1
        /\ ~ret[t].called

====
